---- MODULE Spec2Model ----
(***************************************************************************)
(* Hybrid prediction engine: tracker registry (PredictionManager), the     *)
(* per-target TargetBehaviorTracker, the per-slot OpportunityWindow and    *)
(* the edge-case front end of HybridFusionEngine::compute_hybrid_prediction*)
(*                                                                         *)
(* Numeric conventions                                                     *)
(*   time         integer ticks, one tick = half a second of game time     *)
(*   probability  integer percent, 0..100                                  *)
(*   length       integer game units; vectors are records [x, z]           *)
(***************************************************************************)
EXTENDS Integers, Sequences, FiniteSets, TLC

\* call and result record the most recent entry-point call and what it returned
VARIABLES now, objects, trackers, call, result

vars == <<now, objects, trackers, call, result>>

\* ------------------------------------------------------------------------
\* Bounds of the model
\* ------------------------------------------------------------------------
MaxTime == 6
MaxWindowLen == 1

Ids == {1}

\* ------------------------------------------------------------------------
\* Units and program constants
\* ------------------------------------------------------------------------
\* ticks in n seconds and in n half-seconds
Sec(n) == 2 * n
HalfSecs(n) == n

MOVEMENT_SAMPLE_RATE == 2
TRACKER_TIMEOUT == 3
MOVEMENT_HISTORY_SIZE == 2
MIN_SAMPLES_FOR_BEHAVIOR == 2
STATIONARY_VELOCITY_THRESHOLD == 10
ANALYZE_EVERY == 20
MOVING_SPEED == 10
MAX_SEQUENCE_LENGTH == 8
PATTERN_EXPIRY_DURATION == Sec(3)

\* ------------------------------------------------------------------------
\* Small arithmetic helpers
\* ------------------------------------------------------------------------
Abs(a) == IF a < 0 THEN 0 - a ELSE a
Min(a, b) == IF a < b THEN a ELSE b
Max(a, b) == IF a > b THEN a ELSE b
Clamp(v, lo, hi) == IF v < lo THEN lo ELSE IF v > hi THEN hi ELSE v
\* C++ division truncates toward zero
Quot(a, b) == IF a >= 0 THEN a \div b ELSE 0 - ((0 - a) \div b)

\* floor of the square root; 46339 keeps (r + 1) * (r + 1) inside TLC's integers
Isqrt(n) == CHOOSE r \in 0..Min(n, 46339) : r * r <= n /\ (r + 1) * (r + 1) > n

\* F applied to the value of v, which is computed once
Bind(v, F(_)) == CHOOSE y \in { F(x) : x \in {v} } : TRUE

Last(s) == s[Len(s)]

\* math::vector3 restricted to the ground plane
Vec(x, z) == [x |-> x, z |-> z]
ZeroVec == Vec(0, 0)
magnitude(v) == Isqrt(v.x * v.x + v.z * v.z)
\* unit vector scaled by 100
normalized(v) ==
    LET m == magnitude(v)
    IN  IF m = 0 THEN ZeroVec ELSE Vec(Quot(v.x * 100, m), Quot(v.z * 100, m))

\* ------------------------------------------------------------------------
\* Game objects as the host reports them
\*   "valid"   in the object manager, is_valid() true
\*   "invalid" in the object manager, is_valid() false
\*   "absent"  not in the object manager (dead, disconnected), is_valid() false
\* ------------------------------------------------------------------------
ObjectStates == {"valid", "invalid", "absent"}
is_valid(objs, id) == objs[id] = "valid"
get_object_by_network_id(objs, id) == objs[id] # "absent"

\* What a tracker reads from its target when it samples
Observations ==
    { [position |-> Vec(0, 0),   is_auto_attacking |-> FALSE, is_casting |-> FALSE, is_cced |-> FALSE],
      [position |-> Vec(100, 0), is_auto_attacking |-> FALSE, is_casting |-> FALSE, is_cced |-> FALSE] }

\* ------------------------------------------------------------------------
\* DodgePattern, BehaviorPDF cache and tracker construction
\* ------------------------------------------------------------------------
DodgePattern0 ==
    [ has_pattern |-> FALSE, pattern_confidence |-> 0,
      predicted_next_direction |-> ZeroVec, juke_sequence |-> <<>> ]

\* A BehaviorPDF is represented by what determines its cells: the samples it
\* was built from and the two build parameters.
EmptyPDF ==
    [ total_probability |-> 0, samples |-> <<>>, prediction_time |-> 0,
      move_speed |-> 0, locked |-> FALSE, grid_radius |-> 0,
      pattern |-> DodgePattern0, bias |-> <<>> ]

PdfCache0 ==
    [ cached_pdf |-> EmptyPDF, cached_prediction_time |-> -1,
      cached_move_speed |-> -1, cached_timestamp |-> -1 ]

NoWindows == [s \in {} |-> 0]

NewTracker ==
    [ movement_history |-> <<>>,
      last_update_time |-> 0,
      is_currently_stationary |-> FALSE,
      stationary_start_time |-> 0,
      dodge_pattern |-> DodgePattern0,
      opportunity_windows |-> NoWindows,
      cache |-> PdfCache0 ]

\* ------------------------------------------------------------------------
\* TargetBehaviorTracker
\* ------------------------------------------------------------------------
compute_velocity(prev, curr) ==
    LET dt == curr.timestamp - prev.timestamp
    IN  IF dt <= 0 THEN ZeroVec
        ELSE Vec(Quot(curr.position.x - prev.position.x, dt),
                 Quot(curr.position.z - prev.position.z, dt))

\* y component of the cross product of two unit vectors, scaled by 10000
cross_y(prev_dir, curr_dir) == prev_dir.x * curr_dir.z - prev_dir.z * curr_dir.x

juke_of(prev, curr) ==
    LET c == cross_y(normalized(prev.velocity), normalized(curr.velocity))
    IN  IF c > 1500 THEN -1 ELSE IF c < -1500 THEN 1 ELSE 0

RECURSIVE build_juke_sequence(_, _)
build_juke_sequence(h, i) ==
    IF i > Len(h) THEN <<>>
    ELSE IF magnitude(h[i - 1].velocity) < MOVING_SPEED \/ magnitude(h[i].velocity) < MOVING_SPEED
         THEN build_juke_sequence(h, i + 1)
         ELSE <<juke_of(h[i - 1], h[i])>> \o build_juke_sequence(h, i + 1)

alternation_pairs(seq) ==
    { i \in 3..Len(seq) : seq[i - 2] # 0 /\ seq[i] # 0 }

perpendicular(v) == LET d == normalized(v) IN Vec(0 - d.z, d.x)
scale(v, k) == Vec(v.x * k, v.z * k)

update_dodge_pattern(t, time) ==
    LET h == t.movement_history
        dp0 == t.dodge_pattern
        expired == dp0.has_pattern /\ Len(h) > 0
                   /\ time - Last(h).timestamp > PATTERN_EXPIRY_DURATION
        dp1 == IF expired THEN DodgePattern0 ELSE dp0
        first == IF Len(h) > MAX_SEQUENCE_LENGTH + 1 THEN Len(h) - MAX_SEQUENCE_LENGTH + 1 ELSE 2
        seq == build_juke_sequence(h, first)
        pairs == alternation_pairs(seq)
        is_alternating == \A i \in pairs : seq[i - 2] = 0 - seq[i]
        alternation_count == Cardinality({ i \in pairs : seq[i - 2] = 0 - seq[i] })
        half == Len(seq) \div 2
        is_repeating == \A i \in 1..half : seq[i] = seq[i + half]
        next_in_sequence == seq[(Len(seq) % half) + 1]
        dp2 ==
            IF Len(seq) >= 4 /\ is_alternating /\ alternation_count >= 2
            THEN [ has_pattern |-> TRUE,
                   pattern_confidence |-> Min(90, 60 + alternation_count * 10),
                   predicted_next_direction |->
                       IF Last(seq) # 0
                       THEN scale(perpendicular(Last(h).velocity), 0 - Last(seq))
                       ELSE dp1.predicted_next_direction,
                   juke_sequence |-> seq ]
            ELSE IF Len(seq) >= 6 /\ is_repeating
            THEN [ has_pattern |-> TRUE,
                   pattern_confidence |-> 85,
                   predicted_next_direction |->
                       IF next_in_sequence # 0
                       THEN scale(perpendicular(Last(h).velocity), next_in_sequence)
                       ELSE dp1.predicted_next_direction,
                   juke_sequence |-> seq ]
            ELSE [dp1 EXCEPT !.juke_sequence = seq]
    IN  IF Len(h) < 3 THEN dp0
        ELSE IF dp2.has_pattern THEN dp2
        ELSE [dp2 EXCEPT !.pattern_confidence = 0, !.predicted_next_direction = ZeroVec]

analyze_patterns(t, time) == [t EXCEPT !.dodge_pattern = update_dodge_pattern(t, time)]

\* if (!target_ || !target_->is_valid()) return;
target_unusable_always_false(status) == FALSE
target_unusable(status) == status # "valid"

\* if (current_time - last_update_time_ < MOVEMENT_SAMPLE_RATE) return;
sample_gated_never(t, time) == FALSE
sample_gated(t, time) == time - t.last_update_time < MOVEMENT_SAMPLE_RATE

\* update() that restarts the stationary timer at every slow sample
TargetBehaviorTracker_update_sized_restarts_timer(t, status, obs, time, history_size) ==
    IF target_unusable(status) THEN t
    ELSE IF sample_gated(t, time) THEN t
    ELSE
      LET h == t.movement_history
          base == [ position |-> obs.position, timestamp |-> time,
                    velocity |-> ZeroVec,
                    is_auto_attacking |-> obs.is_auto_attacking,
                    is_casting |-> obs.is_casting,
                    is_cced |-> obs.is_cced ]
          snapshot == IF Len(h) = 0 THEN base
                      ELSE [base EXCEPT !.velocity = compute_velocity(Last(h), base)]
          slow == magnitude(snapshot.velocity) < STATIONARY_VELOCITY_THRESHOLD
          was_stationary == t.is_currently_stationary
          stat == IF Len(h) = 0 THEN t.is_currently_stationary
                  ELSE IF slow THEN TRUE ELSE FALSE
          start == IF Len(h) = 0 THEN t.stationary_start_time
                   ELSE IF slow THEN time
                   ELSE (IF was_stationary THEN 0 ELSE t.stationary_start_time)
          pushed == Append(h, snapshot)
          h2 == IF Len(pushed) > history_size THEN Tail(pushed) ELSE pushed
          t2 == [t EXCEPT !.movement_history = h2,
                          !.last_update_time = time,
                          !.is_currently_stationary = stat,
                          !.stationary_start_time = start]
      IN  IF Len(h2) >= MIN_SAMPLES_FOR_BEHAVIOR /\ Len(h2) % ANALYZE_EVERY = 0
          THEN analyze_patterns(t2, time)
          ELSE t2

\* TargetBehaviorTracker::update with a history that keeps history_size samples
TargetBehaviorTracker_update_sized(t, status, obs, time, history_size) ==
    IF target_unusable(status) THEN t
    ELSE IF sample_gated(t, time) THEN t
    ELSE
      LET h == t.movement_history
          base == [ position |-> obs.position, timestamp |-> time,
                    velocity |-> ZeroVec,
                    is_auto_attacking |-> obs.is_auto_attacking,
                    is_casting |-> obs.is_casting,
                    is_cced |-> obs.is_cced ]
          snapshot == IF Len(h) = 0 THEN base
                      ELSE [base EXCEPT !.velocity = compute_velocity(Last(h), base)]
          slow == magnitude(snapshot.velocity) < STATIONARY_VELOCITY_THRESHOLD
          was_stationary == t.is_currently_stationary
          stat == IF Len(h) = 0 THEN t.is_currently_stationary
                  ELSE IF slow THEN TRUE ELSE FALSE
          start == IF Len(h) = 0 THEN t.stationary_start_time
                   ELSE IF slow THEN (IF was_stationary THEN t.stationary_start_time ELSE time)
                   ELSE (IF was_stationary THEN 0 ELSE t.stationary_start_time)
          pushed == Append(h, snapshot)
          h2 == IF Len(pushed) > history_size THEN Tail(pushed) ELSE pushed
          t2 == [t EXCEPT !.movement_history = h2,
                          !.last_update_time = time,
                          !.is_currently_stationary = stat,
                          !.stationary_start_time = start]
      IN  IF Len(h2) >= MIN_SAMPLES_FOR_BEHAVIOR /\ Len(h2) % ANALYZE_EVERY = 0
          THEN analyze_patterns(t2, time)
          ELSE t2

TargetBehaviorTracker_update(t, status, obs, time) ==
    TargetBehaviorTracker_update_sized(t, status, obs, time, MOVEMENT_HISTORY_SIZE)

\* ------------------------------------------------------------------------
\* OpportunityWindow
\* ------------------------------------------------------------------------
MAX_HISTORY_SIZE == 200
WINDOW_DURATION == Sec(3)
PEAK_STALE == Sec(2)

NewWindow ==
    [ history |-> <<>>, peak_hit_chance |-> 0, peak_timestamp |-> 0,
      window_start_time |-> 0, last_hit_chance |-> 0 ]

\* while (history.size() > MAX_HISTORY_SIZE) history.pop_front();
drop_over_cap(h) ==
    IF Len(h) > MAX_HISTORY_SIZE THEN SubSeq(h, Len(h) - MAX_HISTORY_SIZE + 1, Len(h)) ELSE h

\* while (!history.empty() && current_time - history.front().first >
\* WINDOW_DURATION) history.pop_front(): the loop stops at the first sample
\* that is young enough
drop_old(h, time) ==
    LET young == { i \in 1..Len(h) : ~(time - h[i].t > WINDOW_DURATION) }
        first == IF young = {} THEN Len(h) + 1
                 ELSE CHOOSE i \in young : \A j \in young : i <= j
    IN  SubSeq(h, first, Len(h))

\* the peak recomputation loop (from index i on): the first sample that is
\* strictly larger than everything before it wins
scan_peak(h, i, peak, ts) ==
    LET above == { j \in i..Len(h) : h[j].hc > peak }
        top == CHOOSE j \in above :
                   /\ \A k \in above : h[k].hc <= h[j].hc
                   /\ \A k \in above : h[k].hc = h[j].hc => j <= k
    IN  IF above = {} THEN [peak |-> peak, ts |-> ts]
        ELSE [peak |-> h[top].hc, ts |-> h[top].t]

\* update() that prunes by age only and never caps the stored count
OpportunityWindow_update_uncapped(w, current_time, hit_chance) ==
    LET h1 == Append(w.history, [t |-> current_time, hc |-> hit_chance])
        h2 == drop_old(h1, current_time)
        better == hit_chance > w.peak_hit_chance
        p1 == IF better THEN hit_chance ELSE w.peak_hit_chance
        ts1 == IF better THEN current_time ELSE w.peak_timestamp
        re == scan_peak(h2, 1, 0, ts1)
        stale == current_time - ts1 > PEAK_STALE
    IN  [w EXCEPT !.history = h2,
                  !.peak_hit_chance = IF stale THEN re.peak ELSE p1,
                  !.peak_timestamp = IF stale THEN re.ts ELSE ts1]

\* update() that raises the peak only when it recomputes a stale one
OpportunityWindow_update_keeps_peak(w, current_time, hit_chance) ==
    LET h1 == Append(w.history, [t |-> current_time, hc |-> hit_chance])
        h2 == drop_old(drop_over_cap(h1), current_time)
        better == hit_chance > w.peak_hit_chance
        p1 == w.peak_hit_chance
        ts1 == IF better THEN current_time ELSE w.peak_timestamp
        re == scan_peak(h2, 1, 0, ts1)
        stale == current_time - ts1 > PEAK_STALE
    IN  [w EXCEPT !.history = h2,
                  !.peak_hit_chance = IF stale THEN re.peak ELSE p1,
                  !.peak_timestamp = IF stale THEN re.ts ELSE ts1]

OpportunityWindow_update(w, current_time, hit_chance) ==
    LET h1 == Append(w.history, [t |-> current_time, hc |-> hit_chance])
        h2 == drop_old(drop_over_cap(h1), current_time)
        better == hit_chance > w.peak_hit_chance
        p1 == IF better THEN hit_chance ELSE w.peak_hit_chance
        ts1 == IF better THEN current_time ELSE w.peak_timestamp
        re == scan_peak(h2, 1, 0, ts1)
        stale == current_time - ts1 > PEAK_STALE
    IN  [w EXCEPT !.history = h2,
                  !.peak_hit_chance = IF stale THEN re.peak ELSE p1,
                  !.peak_timestamp = IF stale THEN re.ts ELSE ts1]

\* samples of the trailing second, walking back from the newest
RECURSIVE recent_samples(_, _, _)
recent_samples(h, i, current_time) ==
    IF i < 1 \/ ~(current_time - h[i].t < Sec(1)) THEN <<>>
    ELSE <<h[i].hc>> \o recent_samples(h, i - 1, current_time)

RECURSIVE SumSeq(_)
SumSeq(s) == IF Len(s) = 0 THEN 0 ELSE Head(s) + SumSeq(Tail(s))

\* peak detection that does not wait for the patience window
is_peak_opportunity_no_patience(w, current_time, hit_chance, adaptive_threshold, elapsed_time, patience_window) ==
    LET h == w.history
        n == Len(h)
        recent == recent_samples(h, n, current_time)
        is_sustained_decline ==
            /\ h[n].hc < h[n - 1].hc
            /\ h[n - 1].hc < h[n - 2].hc
            /\ h[n - 2].hc < h[n - 3].hc
    IN  IF n < 5 THEN FALSE
        ELSE IF hit_chance * 1000 < adaptive_threshold * 9 THEN FALSE
        ELSE IF Len(recent) < 3 THEN FALSE
        ELSE IF hit_chance * Len(recent) * 100 < SumSeq(recent) * 105 THEN FALSE
        ELSE is_sustained_decline

\* peak detection that is content with a single drop
is_peak_opportunity_single_drop(w, current_time, hit_chance, adaptive_threshold, elapsed_time, patience_window) ==
    LET h == w.history
        n == Len(h)
        recent == recent_samples(h, n, current_time)
    IN  IF elapsed_time * 10 < patience_window THEN FALSE
        ELSE IF n < 5 THEN FALSE
        ELSE IF hit_chance * 1000 < adaptive_threshold * 9 THEN FALSE
        ELSE IF Len(recent) < 3 THEN FALSE
        ELSE IF hit_chance * Len(recent) * 100 < SumSeq(recent) * 105 THEN FALSE
        ELSE h[n].hc < h[n - 1].hc

\* adaptive_threshold is in hundredths of a percent, patience_window in
\* tenths of a tick
is_peak_opportunity(w, current_time, hit_chance, adaptive_threshold, elapsed_time, patience_window) ==
    LET h == w.history
        n == Len(h)
        recent == recent_samples(h, n, current_time)
        is_sustained_decline ==
            /\ h[n].hc < h[n - 1].hc
            /\ h[n - 1].hc < h[n - 2].hc
            /\ h[n - 2].hc < h[n - 3].hc
    IN  IF elapsed_time * 10 < patience_window THEN FALSE
        ELSE IF n < 5 THEN FALSE
        ELSE IF hit_chance * 1000 < adaptive_threshold * 9 THEN FALSE
        ELSE IF Len(recent) < 3 THEN FALSE
        ELSE IF hit_chance * Len(recent) * 100 < SumSeq(recent) * 105 THEN FALSE
        ELSE is_sustained_decline

get_adaptive_threshold(base_threshold, elapsed_time) ==
    IF elapsed_time < Sec(3) THEN base_threshold * 100
    ELSE IF elapsed_time < Sec(8)
         THEN base_threshold * (100 - 3 * (elapsed_time - Sec(3)))
    ELSE base_threshold * 70

\* a window that is created without its start time being stamped
get_opportunity_window_unstamped(t, spell_slot, time) ==
    IF spell_slot \in DOMAIN t.opportunity_windows THEN t
    ELSE [t EXCEPT !.opportunity_windows = (spell_slot :> NewWindow) @@ @]

get_opportunity_window(t, spell_slot, time) ==
    IF spell_slot \in DOMAIN t.opportunity_windows THEN t
    ELSE [t EXCEPT !.opportunity_windows =
              (spell_slot :> [NewWindow EXCEPT !.window_start_time = time]) @@ @]

base_threshold_of(expected_hitchance) ==
    CASE expected_hitchance = "very_high" -> 80
      [] expected_hitchance = "high" -> 65
      [] expected_hitchance = "medium" -> 55
      [] expected_hitchance = "low" -> 45
      [] OTHER -> 65

\* spell_cooldown in whole seconds; returns the tracker and the result
update_opportunity_signals(res, source, spell, t, time) ==
    LET spell_cooldown ==
            IF source = "valid" /\ spell.spell_slot >= 0 /\ spell.spell_slot <= 3
               /\ spell.has_entry
            THEN spell.cooldown ELSE 10
        patience_window == Clamp(spell_cooldown * 6, 30, 60)
        spell_slot == IF spell.spell_slot < -1 \/ spell.spell_slot > 10 THEN 0
                      ELSE spell.spell_slot
        t1 == get_opportunity_window(t, spell_slot, time)
        w0 == t1.opportunity_windows[spell_slot]
    IN  Bind(OpportunityWindow_update(w0, time, res.hit_chance),
             LAMBDA w1 :
               LET elapsed_time == time - w1.window_start_time
                   score == IF w1.peak_hit_chance > 0
                            THEN (res.hit_chance * 100) \div w1.peak_hit_chance ELSE 100
                   threshold == get_adaptive_threshold(
                                    base_threshold_of(spell.expected_hitchance), elapsed_time)
                   peak == is_peak_opportunity(w1, time, res.hit_chance, threshold,
                                               elapsed_time, patience_window)
                   collapsed == res.hit_chance * 2 < w1.last_hit_chance
                                /\ elapsed_time > Sec(1)
                   w2 == IF collapsed THEN [NewWindow EXCEPT !.window_start_time = time]
                         ELSE w1
                   w3 == [w2 EXCEPT !.last_hit_chance = res.hit_chance]
               IN  [ tracker |-> [t1 EXCEPT !.opportunity_windows[spell_slot] = w3],
                     result |-> [res EXCEPT !.opportunity_score = score,
                                            !.adaptive_threshold = threshold,
                                            !.is_peak_opportunity = peak] ])

\* ------------------------------------------------------------------------
\* BehaviorPDF cache (TargetBehaviorTracker::build_behavior_pdf)
\* Spell timings (delay, travel time, remaining durations) are in
\* hundredths of a second.
\* ------------------------------------------------------------------------
CsPerTick == 100 \div Sec(1)
TIME_TOLERANCE == 5
SPEED_TOLERANCE == 20
MIN_GRID_RADIUS == 400
PDF_SAMPLE_LIMIT == 30

RECURSIVE LastN(_, _)
LastN(h, n) == IF Len(h) > n THEN LastN(Tail(h), n) ELSE h

\* build_behavior_pdf that stores the PDF in the cache before normalize() ran
build_behavior_pdf_caches_unnormalized(t, prediction_time, move_speed, time) ==
    LET c == t.cache
        same_frame == time = c.cached_timestamp
        similar_pred_time == Abs(prediction_time - c.cached_prediction_time) < TIME_TOLERANCE
        similar_move_speed == Abs(move_speed - c.cached_move_speed) < SPEED_TOLERANCE
        h == t.movement_history
        latest == Last(h)
        radius == Max(MIN_GRID_RADIUS, (move_speed * prediction_time * 12) \div 1000)
        locked_pdf ==
            [ total_probability |-> 1, samples |-> <<latest>>,
              prediction_time |-> prediction_time, move_speed |-> move_speed,
              locked |-> TRUE, grid_radius |-> radius, pattern |-> DodgePattern0,
              bias |-> <<>> ]
        pdf ==
            [ total_probability |-> 1, samples |-> LastN(h, PDF_SAMPLE_LIMIT),
              prediction_time |-> prediction_time, move_speed |-> move_speed,
              locked |-> FALSE, grid_radius |-> radius, pattern |-> t.dodge_pattern,
              bias |-> <<>> ]
    IN  IF same_frame /\ similar_pred_time /\ similar_move_speed
           /\ c.cached_pdf.total_probability > 0
        THEN [tracker |-> t, pdf |-> c.cached_pdf, cache_hit |-> TRUE]
        ELSE IF Len(h) = 0
        THEN [tracker |-> t, pdf |-> EmptyPDF, cache_hit |-> FALSE]
        ELSE IF latest.is_cced \/ latest.is_casting
        THEN [tracker |-> t, pdf |-> locked_pdf, cache_hit |-> FALSE]
        ELSE [tracker |-> [t EXCEPT !.cache =
                              [ cached_pdf |-> [pdf EXCEPT !.total_probability =
                                                               Len(pdf.samples) + 1],
                                cached_prediction_time |-> prediction_time,
                                cached_move_speed |-> move_speed,
                                cached_timestamp |-> time ]],
              pdf |-> pdf, cache_hit |-> FALSE]

\* returns the tracker (with its cache) and the PDF handed to the caller
build_behavior_pdf(t, prediction_time, move_speed, time) ==
    LET c == t.cache
        same_frame == time = c.cached_timestamp
        similar_pred_time == Abs(prediction_time - c.cached_prediction_time) < TIME_TOLERANCE
        similar_move_speed == Abs(move_speed - c.cached_move_speed) < SPEED_TOLERANCE
        h == t.movement_history
        latest == Last(h)
        radius == Max(MIN_GRID_RADIUS, (move_speed * prediction_time * 12) \div 1000)
        locked_pdf ==
            [ total_probability |-> 1, samples |-> <<latest>>,
              prediction_time |-> prediction_time, move_speed |-> move_speed,
              locked |-> TRUE, grid_radius |-> radius, pattern |-> DodgePattern0,
              bias |-> <<>> ]
        pdf ==
            [ total_probability |-> 1, samples |-> LastN(h, PDF_SAMPLE_LIMIT),
              prediction_time |-> prediction_time, move_speed |-> move_speed,
              locked |-> FALSE, grid_radius |-> radius, pattern |-> t.dodge_pattern,
              bias |-> <<>> ]
    IN  IF same_frame /\ similar_pred_time /\ similar_move_speed
           /\ c.cached_pdf.total_probability > 0
        THEN [tracker |-> t, pdf |-> c.cached_pdf, cache_hit |-> TRUE]
        ELSE IF Len(h) = 0
        THEN [tracker |-> t, pdf |-> EmptyPDF, cache_hit |-> FALSE]
        ELSE IF latest.is_cced \/ latest.is_casting
        THEN [tracker |-> t, pdf |-> locked_pdf, cache_hit |-> FALSE]
        ELSE [tracker |-> [t EXCEPT !.cache =
                              [ cached_pdf |-> pdf,
                                cached_prediction_time |-> prediction_time,
                                cached_move_speed |-> move_speed,
                                cached_timestamp |-> time ]],
              pdf |-> pdf, cache_hit |-> FALSE]

is_animation_locked(t) ==
    /\ Len(t.movement_history) > 0
    /\ LET latest == Last(t.movement_history)
       IN  latest.is_auto_attacking \/ latest.is_casting \/ latest.is_cced

get_stationary_duration(t, current_time) ==
    IF ~t.is_currently_stationary THEN 0 ELSE current_time - t.stationary_start_time

\* a boost that stays at 50 between 0.5 s and 1.0 s
get_stationary_hitchance_boost_flat(t, current_time, half_second) ==
    LET duration == get_stationary_duration(t, current_time)
    IN  IF ~t.is_currently_stationary THEN 0
        ELSE IF duration < half_second THEN 0
        ELSE IF duration >= 2 * half_second THEN 75
        ELSE 50

\* TargetBehaviorTracker::get_stationary_hitchance_boost with the clock and
\* the timer of t in units of which half_second make 0.5 s; the ramp is
\* 50 + 25 * (d - 0.5) / 0.5
get_stationary_hitchance_boost_at(t, current_time, half_second) ==
    LET duration == get_stationary_duration(t, current_time)
    IN  IF ~t.is_currently_stationary THEN 0
        ELSE IF duration < half_second THEN 0
        ELSE IF duration >= 2 * half_second THEN 75
        ELSE 50 + ((duration - half_second) * 25) \div half_second

\* 0.5 s = one tick, 1.0 s = two ticks
get_stationary_hitchance_boost(t, current_time) ==
    get_stationary_hitchance_boost_at(t, current_time, HalfSecs(1))

\* ------------------------------------------------------------------------
\* PhysicsPredictor::compute_arrival_time and the EdgeCases helpers
\* ------------------------------------------------------------------------
FLT_MAX == 1000000

\* distance in units, projectile_speed in units per second, delay and the
\* returned arrival time in hundredths of a second
compute_arrival_time(distance, projectile_speed, cast_delay) ==
    IF projectile_speed < 1 \/ projectile_speed >= FLT_MAX \div 2
    THEN cast_delay
    ELSE cast_delay + (distance * 100) \div projectile_speed

\* delay needed so that the travel time lands exactly at the stasis exit
calculate_stasis_cast_timing(stasis, spell_travel_time, current_time) ==
    (stasis.end_time - current_time) - spell_travel_time

can_interrupt_channel(channel, spell_travel_time) ==
    spell_travel_time <= channel.time_remaining

\* the spell must not arrive before the dash has ended
validate_dash_timing(dash, spell_travel_time, current_time) ==
    spell_travel_time >= dash.dash_end_time - current_time

\* ------------------------------------------------------------------------
\* HybridFusionEngine
\* ------------------------------------------------------------------------
DefaultResult ==
    [ is_valid |-> FALSE, hit_chance |-> 0, confidence_score |-> 0,
      physics_contribution |-> 0, behavior_contribution |-> 0,
      cast_position |-> ZeroVec, reasoning |-> "",
      opportunity_score |-> 0, adaptive_threshold |-> 0,
      is_peak_opportunity |-> FALSE,
      behavior_pdf |-> EmptyPDF,
      \* pred_data.hitchance of the SDK entry points, and whether the call
      \* left the entry point by an exception instead of returning
      hitchance |-> "any", escaped |-> FALSE ]

Invalid(res, why) == [res EXCEPT !.is_valid = FALSE, !.reasoning = why]

\* in.geo carries what the evaluators read from the host and compute with
\* floating-point geometry: positions, distance, move speed, the aim point
\* found by the search, the fused hit chance and the confidence score
arrival_time_of(in) ==
    compute_arrival_time(in.geo.distance, in.spell.projectile_speed, in.spell.delay)

is_cone_spell(in) ==
    in.spell.spell_slot >= 0 /\ in.spell.has_entry /\ in.spell.cone_angle > 0

compute_targeted_prediction(in, t, time) ==
    [ tracker |-> t,
      result |-> [DefaultResult EXCEPT
                    !.cast_position = in.geo.target_position,
                    !.hit_chance = 100,
                    !.physics_contribution = 100,
                    !.behavior_contribution = 100,
                    !.confidence_score = in.geo.confidence,
                    !.is_valid = TRUE,
                    !.reasoning = "Targeted spell - guaranteed hit"] ]

\* BehaviorPredictor::apply_contextual_factors: an animation-locked target
\* gets one more weighted sample at its current position; the host reports
\* no low-health minions, so no last-hit opportunity is added
apply_contextual_factors(pdf, t) ==
    IF is_animation_locked(t)
    THEN [pdf EXCEPT !.bias = <<Last(t.movement_history).position>>,
                     !.total_probability = 1]
    ELSE pdf

\* common body of the circular, linear, vector and cone evaluators;
\* guards_distance is TRUE for the two that reject a zero-length direction
compute_shape_prediction(in, t, time, guards_distance) ==
    LET res == [DefaultResult EXCEPT
                    !.confidence_score = in.geo.confidence,
                    !.cast_position = in.geo.aim,
                    !.physics_contribution = in.geo.physics_prob,
                    !.behavior_contribution = in.geo.behavior_prob,
                    !.hit_chance = Clamp(in.geo.fused, 0, 100),
                    !.reasoning = "Hybrid Prediction Analysis",
                    !.is_valid = TRUE]
    IN  Bind(build_behavior_pdf(t, arrival_time_of(in), in.geo.move_speed, time),
             LAMBDA built :
               LET behavior_pdf == apply_contextual_factors(built.pdf, built.tracker)
               IN  IF guards_distance /\ in.geo.distance < 1
                   THEN [ tracker |-> built.tracker,
                          result |-> [DefaultResult EXCEPT
                                         !.behavior_pdf = behavior_pdf,
                                         !.confidence_score = in.geo.confidence,
                                         !.reasoning = "Target too close - zero distance"] ]
                   ELSE update_opportunity_signals([res EXCEPT !.behavior_pdf = behavior_pdf],
                                                   in.source, in.spell, built.tracker, time))

compute_circular_prediction(in, t, time) == compute_shape_prediction(in, t, time, FALSE)
compute_linear_prediction(in, t, time) == compute_shape_prediction(in, t, time, TRUE)
compute_vector_prediction(in, t, time) == compute_shape_prediction(in, t, time, FALSE)
compute_cone_prediction(in, t, time) == compute_shape_prediction(in, t, time, TRUE)

dispatch_spell_type(in, t, time) ==
    CASE in.spell.spell_type = "linear" -> compute_linear_prediction(in, t, time)
      [] in.spell.spell_type = "circular" -> compute_circular_prediction(in, t, time)
      [] in.spell.spell_type = "targetted" -> compute_targeted_prediction(in, t, time)
      [] in.spell.spell_type = "vector" -> compute_vector_prediction(in, t, time)
      [] OTHER -> compute_circular_prediction(in, t, time)

apply_edge_case_adjustments(spell_result, edge_cases, t, time) ==
    IF ~spell_result.is_valid THEN spell_result
    ELSE
      LET conf == (spell_result.confidence_score * edge_cases.confidence_multiplier) \div 100
          hc == (spell_result.hit_chance * edge_cases.confidence_multiplier) \div 100
          stationary_boost == get_stationary_hitchance_boost(t, time)
          hc2 == IF stationary_boost > 0 THEN Max(hc, stationary_boost) ELSE hc
      IN  [spell_result EXCEPT !.confidence_score = Clamp(conf, 0, 100),
                               !.hit_chance = Clamp(hc2, 0, 100)]

\* the local result after the dash branch (lines 1513-1555)
dash_branch_result(in, time) ==
    LET dash == in.edge.dash
        spell_travel_time == compute_arrival_time(dash.distance_to_dash_end,
                                                  in.spell.projectile_speed, in.spell.delay)
        timing_valid == validate_dash_timing(dash, spell_travel_time, time * CsPerTick)
    IN  IF ~(dash.is_dashing /\ in.enable_dash_prediction) THEN DefaultResult
        ELSE IF dash.distance_to_dash_end > in.spell.range
        THEN Invalid(DefaultResult, "Enemy dashing OUT OF RANGE")
        ELSE IF ~timing_valid
        THEN [DefaultResult EXCEPT !.confidence_score = 30,
                                   !.reasoning = "Enemy dashing - spell arrives before dash ends"]
        ELSE [DefaultResult EXCEPT !.reasoning = "Dash endpoint prediction active"]

\* the stasis branch, with a stasis exit that is cast at too early
stasis_result_casts_early(in, time) ==
    LET spell_travel_time == arrival_time_of(in)
        cast_delay == calculate_stasis_cast_timing(in.edge.stasis, spell_travel_time,
                                                   time * CsPerTick)
    IN  IF cast_delay < 0
        THEN Invalid(DefaultResult, "Stasis timing impossible - travel time too long")
        ELSE [DefaultResult EXCEPT !.cast_position = in.edge.stasis.exit_position,
                                   !.hit_chance = 100,
                                   !.physics_contribution = 100,
                                   !.behavior_contribution = 100,
                                   !.confidence_score = 100,
                                   !.is_valid = TRUE,
                                   !.reasoning = "STASIS EXIT PREDICTION"]

\* the stasis branch (lines 1433-1476)
stasis_result(in, time) ==
    LET spell_travel_time == arrival_time_of(in)
        cast_delay == calculate_stasis_cast_timing(in.edge.stasis, spell_travel_time,
                                                   time * CsPerTick)
    IN  IF cast_delay < 0
        THEN Invalid(DefaultResult, "Stasis timing impossible - travel time too long")
        ELSE IF cast_delay > 0
        THEN Invalid(DefaultResult, "Wait for stasis exit timing")
        ELSE [DefaultResult EXCEPT !.cast_position = in.edge.stasis.exit_position,
                                   !.hit_chance = 100,
                                   !.physics_contribution = 100,
                                   !.behavior_contribution = 100,
                                   !.confidence_score = 100,
                                   !.is_valid = TRUE,
                                   !.reasoning = "STASIS EXIT PREDICTION"]

\* the channel branch, without the question whether the channel lasts
channel_result_never_rejects(in) ==
    [DefaultResult EXCEPT !.cast_position = in.edge.channel.position,
                          !.hit_chance = 100,
                          !.physics_contribution = 100,
                          !.behavior_contribution = 100,
                          !.confidence_score = 100,
                          !.is_valid = TRUE,
                          !.reasoning = IF in.edge.channel.is_recalling
                                        THEN "RECALL INTERRUPT"
                                        ELSE "CHANNEL INTERRUPT"]

\* the channel/recall branch (lines 1478-1511)
channel_result(in) ==
    LET spell_travel_time == arrival_time_of(in)
    IN  IF ~can_interrupt_channel(in.edge.channel, spell_travel_time)
        THEN Invalid(DefaultResult, "Channel will finish before spell arrives")
        ELSE [DefaultResult EXCEPT !.cast_position = in.edge.channel.position,
                                   !.hit_chance = 100,
                                   !.physics_contribution = 100,
                                   !.behavior_contribution = 100,
                                   !.confidence_score = 100,
                                   !.is_valid = TRUE,
                                   !.reasoning = IF in.edge.channel.is_recalling
                                                 THEN "RECALL INTERRUPT"
                                                 ELSE "CHANNEL INTERRUPT"]

\* cone detection, dispatch on the spell type and the adjustments applied to
\* the evaluator's record (lines 1557-1627); the local result of the dash
\* branch is dropped here: the evaluator's record is the one returned
evaluate_spell(in, t, time) ==
    Bind(IF is_cone_spell(in) THEN compute_cone_prediction(in, t, time)
         ELSE dispatch_spell_type(in, t, time),
         LAMBDA evaluated :
           IF is_cone_spell(in) THEN evaluated
           ELSE [ tracker |-> evaluated.tracker,
                  result |-> apply_edge_case_adjustments(evaluated.result, in.edge,
                                                         evaluated.tracker, time) ])

\* entry check that looks at the target only
compute_hybrid_prediction_unchecked_source(in, target_valid, t, time) ==
    LET edge_cases == in.edge
        same(r) == [tracker |-> t, result |-> r]
    IN  IF ~target_valid THEN same(Invalid(DefaultResult, ""))
        ELSE IF edge_cases.is_clone THEN same(Invalid(DefaultResult, "Target is a clone"))
        ELSE IF edge_cases.blocked_by_windwall
             THEN same(Invalid(DefaultResult, "Projectile will be blocked by windwall"))
        ELSE IF edge_cases.stasis.is_in_stasis THEN same(stasis_result(in, time))
        ELSE IF edge_cases.channel.is_channeling \/ edge_cases.channel.is_recalling
             THEN same(channel_result(in))
        ELSE IF dash_branch_result(in, time).reasoning = "Enemy dashing OUT OF RANGE"
             THEN same(dash_branch_result(in, time))
        ELSE evaluate_spell(in, t, time)

\* stasis and channel handled ahead of the clone and windwall filters
compute_hybrid_prediction_filters_last(in, target_valid, t, time) ==
    LET edge_cases == in.edge
        same(r) == [tracker |-> t, result |-> r]
    IN  IF in.source # "valid" \/ ~target_valid THEN same(Invalid(DefaultResult, ""))
        ELSE IF edge_cases.stasis.is_in_stasis THEN same(stasis_result(in, time))
        ELSE IF edge_cases.channel.is_channeling \/ edge_cases.channel.is_recalling
             THEN same(channel_result(in))
        ELSE IF edge_cases.is_clone THEN same(Invalid(DefaultResult, "Target is a clone"))
        ELSE IF edge_cases.blocked_by_windwall
             THEN same(Invalid(DefaultResult, "Projectile will be blocked by windwall"))
        ELSE IF dash_branch_result(in, time).reasoning = "Enemy dashing OUT OF RANGE"
             THEN same(dash_branch_result(in, time))
        ELSE evaluate_spell(in, t, time)

\* target_valid is target != null && target->is_valid()
compute_hybrid_prediction(in, target_valid, t, time) ==
    LET edge_cases == in.edge
        same(r) == [tracker |-> t, result |-> r]
    IN  IF in.source # "valid" \/ ~target_valid THEN same(Invalid(DefaultResult, ""))
        ELSE IF edge_cases.is_clone THEN same(Invalid(DefaultResult, "Target is a clone"))
        ELSE IF edge_cases.blocked_by_windwall
             THEN same(Invalid(DefaultResult, "Projectile will be blocked by windwall"))
        ELSE IF edge_cases.stasis.is_in_stasis THEN same(stasis_result(in, time))
        ELSE IF edge_cases.channel.is_channeling \/ edge_cases.channel.is_recalling
             THEN same(channel_result(in))
        ELSE IF dash_branch_result(in, time).reasoning = "Enemy dashing OUT OF RANGE"
             THEN same(dash_branch_result(in, time))
        ELSE evaluate_spell(in, t, time)

\* ------------------------------------------------------------------------
\* PredictionManager
\* ------------------------------------------------------------------------
NullTarget == 0

\* cleanup that forgets to ask the object manager whether the target exists
should_remove_by_age_only(t, objs, id, current_time) ==
    LET history == t.movement_history
    IN  IF Len(history) = 0 THEN TRUE
        ELSE current_time - Last(history).timestamp > TRACKER_TIMEOUT

should_remove(t, objs, id, current_time) ==
    LET history == t.movement_history
    IN  IF get_object_by_network_id(objs, id)
        THEN FALSE
        ELSE IF Len(history) = 0 THEN TRUE
        ELSE current_time - Last(history).timestamp > TRACKER_TIMEOUT

PredictionManager_update(trs, objs, obs, current_time) ==
    Bind([id \in DOMAIN trs |->
             TargetBehaviorTracker_update(trs[id], objs[id], obs[id], current_time)],
         LAMBDA updated :
           LET kept == { id \in DOMAIN trs :
                           ~should_remove(updated[id], objs, id, current_time) }
           IN  [id \in kept |-> updated[id]])

target_is_valid(objs, target) == target # NullTarget /\ is_valid(objs, target)

\* lookup that skips the find() and always installs a fresh tracker
get_tracker_always_new(trs, objs, target) ==
    IF ~target_is_valid(objs, target) THEN trs
    ELSE (target :> NewTracker) @@ trs

get_tracker(trs, objs, target) ==
    IF ~target_is_valid(objs, target) THEN trs
    ELSE IF target \in DOMAIN trs THEN trs
    ELSE (target :> NewTracker) @@ trs

\* predict that samples the target before evaluating
PredictionManager_predict_sampling(trs, objs, in, time) ==
    LET trs1 == get_tracker(trs, objs, in.target)
    IN  IF ~target_is_valid(objs, in.target)
        THEN [trackers |-> trs1, result |-> Invalid(DefaultResult, "")]
        ELSE LET obs == CHOOSE o \in Observations : TRUE
                 sampled == TargetBehaviorTracker_update(trs1[in.target], "valid", obs, time)
             IN  Bind(compute_hybrid_prediction(in, TRUE, sampled, time),
                      LAMBDA r : [ trackers |-> [trs1 EXCEPT ![in.target] = r.tracker],
                                   result |-> r.result ])

PredictionManager_predict(trs, objs, in, time) ==
    LET trs1 == get_tracker(trs, objs, in.target)
    IN  IF ~target_is_valid(objs, in.target)
        THEN [trackers |-> trs1, result |-> Invalid(DefaultResult, "")]
        ELSE Bind(compute_hybrid_prediction(in, TRUE, trs1[in.target], time),
                  LAMBDA r : [ trackers |-> [trs1 EXCEPT ![in.target] = r.tracker],
                               result |-> r.result ])

\* ------------------------------------------------------------------------
\* CustomPredictionSDK: the entry points the host calls
\* ------------------------------------------------------------------------
convert_hit_chance_to_enum(hit_chance) ==
    IF hit_chance >= 95 THEN "guaranteed_hit"
    ELSE IF hit_chance >= 80 THEN "very_high"
    ELSE IF hit_chance >= 65 THEN "high"
    ELSE IF hit_chance >= 50 THEN "medium"
    ELSE IF hit_chance >= 30 THEN "low"
    ELSE "any"

hitchance_rank(h) ==
    CASE h = "any" -> 0
      [] h = "low" -> 1
      [] h = "medium" -> 2
      [] h = "high" -> 3
      [] h = "very_high" -> 4
      [] OTHER -> 5

RANGE_BUFFER == 25
GLOBAL_RANGE == 2500
MAX_SEARCH_BUFFER == 300

\* a call into PredictionManager::predict that may throw: the tracker lookup
\* has run when the fault strikes
engine_call(trs, objs, in, time) ==
    IF in.host.fault /\ target_is_valid(objs, in.target)
    THEN [ threw |-> TRUE, trackers |-> get_tracker(trs, objs, in.target),
           result |-> DefaultResult ]
    ELSE Bind(PredictionManager_predict(trs, objs, in, time),
              LAMBDA r : [threw |-> FALSE, trackers |-> r.trackers, result |-> r.result])

Rejected == [DefaultResult EXCEPT !.is_valid = FALSE, !.hitchance = "any"]
Escaped == [DefaultResult EXCEPT !.escaped = TRUE]

\* predict(game_object* obj, spell_data)
CustomPredictionSDK_predict(trs, objs, in, time) ==
    LET source_ok == in.source = "valid"
        in2 == IF source_ok THEN in ELSE [in EXCEPT !.source = "valid"]
        effective_max_range == in.spell.range + in.geo.bounding_radius + RANGE_BUFFER
        range_buffer == IF in.spell.spell_type = "linear" THEN in.spell.radius ELSE RANGE_BUFFER
        reject(r) == [trackers |-> r, result |-> Rejected]
    IN  IF ~target_is_valid(objs, in.target) THEN reject(trs)
        ELSE IF ~source_ok /\ in.host.local_player # "valid" THEN reject(trs)
        ELSE IF in.geo.distance > effective_max_range THEN reject(trs)
        ELSE IF ~in.host.should_predict THEN reject(trs)
        ELSE Bind(engine_call(trs, objs, in2, time),
                  LAMBDA e :
                    LET hybrid == e.result
                        penalised ==
                            IF in.host.fog_multiplier < 100
                            THEN (hybrid.hit_chance * in.host.fog_multiplier) \div 100
                            ELSE hybrid.hit_chance
                        hitchance == convert_hit_chance_to_enum(penalised)
                    IN  IF e.threw THEN reject(e.trackers)
                        ELSE IF ~hybrid.is_valid THEN reject(e.trackers)
                        ELSE IF hitchance_rank(hitchance)
                                    < hitchance_rank(in.spell.expected_hitchance)
                             THEN reject(e.trackers)
                        ELSE IF magnitude(hybrid.cast_position) > in.spell.range + range_buffer
                             THEN reject(e.trackers)
                        ELSE IF in.host.collides THEN reject(e.trackers)
                        ELSE [ trackers |-> e.trackers,
                               result |-> [hybrid EXCEPT !.hitchance = hitchance] ])

\* calculate_target_score: the engine is called outside any try block
calculate_target_score(trs, objs, in, time) ==
    IF ~target_is_valid(objs, in.target)
    THEN [threw |-> FALSE, trackers |-> trs]
    ELSE IF in.edge.is_clone \/ in.edge.blocked_by_windwall
    THEN [threw |-> FALSE, trackers |-> trs]
    ELSE Bind(engine_call(trs, objs, in, time),
              LAMBDA e : [threw |-> e.threw, trackers |-> e.trackers])

search_range_of(spell) ==
    IF spell.range < GLOBAL_RANGE
    THEN spell.range + Min(spell.range \div 2, MAX_SEARCH_BUFFER)
    ELSE spell.range

\* get_best_target with one enemy hero, in.target, known to the object manager:
\* "ts" when the target selector's choice is taken, "scored" when the
\* fallback loop scored the hero, "none" when there is no candidate
get_best_target(objs, in) ==
    LET in_search == in.geo.distance <= search_range_of(in.spell)
        ts_taken ==
            /\ in.host.ts # "none"
            /\ target_is_valid(objs, in.target)
            /\ in_search
            /\ \/ in.geo.distance <= in.spell.range
               \/ in.spell.range >= GLOBAL_RANGE
               \/ in.host.ts = "approaching"
    IN  IF in.source # "valid" THEN "none"
        ELSE IF ts_taken THEN "ts"
        ELSE IF target_is_valid(objs, in.target) /\ in_search THEN "scored"
        ELSE "none"

\* predict(spell_data): auto-target
CustomPredictionSDK_predict_auto(trs, objs, in, time) ==
    LET in2 == IF in.source = "valid" THEN in
               ELSE [in EXCEPT !.source = IF in.host.local_player = "invalid"
                                          THEN "invalid" ELSE "valid"]
        best == get_best_target(objs, in2)
    IN  IF best = "none" THEN [trackers |-> trs, result |-> Rejected]
        ELSE IF best = "ts" THEN CustomPredictionSDK_predict(trs, objs, in2, time)
        ELSE Bind(calculate_target_score(trs, objs, in2, time),
                  LAMBDA scored :
                    IF scored.threw THEN [trackers |-> scored.trackers, result |-> Escaped]
                    ELSE CustomPredictionSDK_predict(scored.trackers, objs, in2, time))

\* ------------------------------------------------------------------------
\* Inputs of predict()
\* ------------------------------------------------------------------------
NoStasis == [is_in_stasis |-> FALSE, end_time |-> 0, exit_position |-> ZeroVec]
NoChannel == [ is_channeling |-> FALSE, is_recalling |-> FALSE,
               time_remaining |-> 0, position |-> ZeroVec ]
NoDash == [is_dashing |-> FALSE, distance_to_dash_end |-> 0, dash_end_time |-> 0]

NoEdgeCase ==
    [ is_clone |-> FALSE, blocked_by_windwall |-> FALSE, stasis |-> NoStasis,
      channel |-> NoChannel, dash |-> NoDash, confidence_multiplier |-> 100 ]

Spell(type, slot) ==
    [ spell_slot |-> slot, spell_type |-> type, expected_hitchance |-> "high",
      range |-> 1000, radius |-> 60, delay |-> 25, projectile_speed |-> 2000,
      has_entry |-> TRUE, cone_angle |-> 0, cooldown |-> 10 ]

Geo(distance, fused) ==
    [ distance |-> distance, target_position |-> Vec(distance, 0),
      move_speed |-> 350, aim |-> Vec(distance, 0),
      physics_prob |-> fused, behavior_prob |-> fused, fused |-> fused,
      confidence |-> 80, bounding_radius |-> 65 ]

\* what the SDK layer reads from the host besides the entities:
\*   fault          the hybrid engine throws when it is invoked in this call
\*   local_player   "valid", "invalid" or "zero" (valid, position at origin)
\*   ts             "none" when the target selector offers no hero, else the
\*                  direction of the offered hero's path: "approaching" or
\*                  "leaving"
Host0 ==
    [ fault |-> FALSE, local_player |-> "valid", should_predict |-> TRUE,
      fog_multiplier |-> 100, ts |-> "none", collides |-> FALSE ]

Input(source, target, spell, edge, geo) ==
    [ source |-> source, target |-> target, spell |-> spell, edge |-> edge,
      geo |-> geo, enable_dash_prediction |-> TRUE, host |-> Host0 ]

NoInput == Input("null", NullTarget, Spell("circular", 0), NoEdgeCase, Geo(0, 0))

Call(op, in, removed, gated) == [op |-> op, in |-> in, removed |-> removed, gated |-> gated]

\* the calls made while the registry is exercised
RegistryScenarios ==
    { [source |-> "valid", edge |-> NoEdgeCase, fused |-> 90],
      [source |-> "valid", edge |-> [NoEdgeCase EXCEPT !.is_clone = TRUE], fused |-> 90],
      [source |-> "null", edge |-> NoEdgeCase, fused |-> 90] }

RegistryInputs ==
    { Input(sc.source, target, Spell("circular", 0), sc.edge, Geo(500, sc.fused)) :
        sc \in RegistryScenarios, target \in Ids \cup {NullTarget} }

\* ------------------------------------------------------------------------
\* State machine
\* ------------------------------------------------------------------------
Init ==
    /\ now = 0
    /\ objects = [id \in Ids |-> "valid"]
    /\ trackers = [id \in {} |-> NewTracker]
    /\ call = Call("init", NoInput, {}, {})
    /\ result = DefaultResult

\* game time advances between frames
Tick ==
    /\ now < MaxTime
    /\ now' = now + 1
    /\ call' = Call("tick", NoInput, {}, {})
    /\ result' = DefaultResult
    /\ UNCHANGED <<objects, trackers>>

\* the host creates, invalidates or removes a game object
SetObject ==
    \E id \in Ids, s \in ObjectStates :
        /\ objects[id] # s
        /\ objects' = [objects EXCEPT ![id] = s]
        /\ call' = Call("world", NoInput, {}, {})
        /\ result' = DefaultResult
        /\ UNCHANGED <<now, trackers>>

\* CustomPredictionSDK::update_trackers -> PredictionManager::update
Update ==
    \E obs \in [Ids -> Observations] :
        /\ trackers' = PredictionManager_update(trackers, objects, obs, now)
        /\ call' = Call("update", NoInput,
                        { [id |-> id, samples |-> Len(trackers[id].movement_history)] :
                            id \in DOMAIN trackers \ DOMAIN trackers' },
                        { id \in DOMAIN trackers :
                            is_valid(objects, id)
                            /\ now - trackers[id].last_update_time < MOVEMENT_SAMPLE_RATE })
        /\ result' = DefaultResult
        /\ UNCHANGED <<now, objects>>

window_room(trs, in) ==
    \A id \in DOMAIN trs : \A s \in DOMAIN trs[id].opportunity_windows :
        Len(trs[id].opportunity_windows[s].history) <= MaxWindowLen

\* PredictionManager::predict on one of the given inputs
PredictOneOf(inputs) ==
    \E in \in inputs :
        \E r \in {PredictionManager_predict(trackers, objects, in, now)} :
            /\ window_room(r.trackers, in)
            /\ trackers' = r.trackers
            /\ result' = r.result
            /\ call' = Call("predict", in, {}, {})
            /\ UNCHANGED <<now, objects>>

Predict == PredictOneOf(RegistryInputs)

Next == Tick \/ SetObject \/ Update \/ Predict

Spec == Init /\ [][Next]_vars

\* While eviction is watched predict() contributes what it can do to the
\* registry's membership, the lookup that installs a tracker: its calls are
\* those that end before an evaluator runs. Game time keeps advancing and the
\* host calls update() every frame.
LiveInputs == { in \in RegistryInputs : in.edge.is_clone \/ in.source # "valid" }

PredictLive == PredictOneOf(LiveInputs)

NextLive == Tick \/ SetObject \/ Update \/ PredictLive

SpecLive == Init /\ [][NextLive]_vars /\ WF_vars(Tick) /\ WF_vars(Update)

\* ------------------------------------------------------------------------
\* The entry points applied to inputs drawn from bounded sets
\* ------------------------------------------------------------------------
\* travel time of SweepSpell over SweepDistance, in hundredths of a second
SweepDistance == 500
SweepTravel == compute_arrival_time(SweepDistance, 2000, 25)
ExitPosition == Vec(480, 20)
ChannelPosition == Vec(510, 10)

\* stasis and channel that end before, exactly when and after the spell lands
StasisCases(time) ==
    {NoStasis} \cup
    { [is_in_stasis |-> TRUE, end_time |-> time * CsPerTick + SweepTravel + d,
       exit_position |-> ExitPosition] : d \in {-20, 0, 10} }

ChannelCases ==
    {NoChannel} \cup
    { [is_channeling |-> ~rec, is_recalling |-> rec,
       time_remaining |-> SweepTravel + d, position |-> ChannelPosition] :
         rec \in BOOLEAN, d \in {-20, 0, 10} }

DashCases(time) ==
    { NoDash,
      [is_dashing |-> TRUE, distance_to_dash_end |-> 600,
       dash_end_time |-> time * CsPerTick + 100],
      [is_dashing |-> TRUE, distance_to_dash_end |-> 1200,
       dash_end_time |-> time * CsPerTick + 10] }

EdgeCases(time) ==
    { [ is_clone |-> clone, blocked_by_windwall |-> wall, stasis |-> st,
        channel |-> ch, dash |-> da, confidence_multiplier |-> 100 ] :
        clone \in BOOLEAN, wall \in BOOLEAN, st \in StasisCases(time),
        ch \in ChannelCases, da \in DashCases(time) }

SpellTypes == {"circular", "linear", "targetted", "vector", "cone"}

SpellOf(type) ==
    IF type = "cone" THEN [Spell("circular", 0) EXCEPT !.cone_angle = 60]
    ELSE Spell(type, 0)

Sources == {"valid", "invalid", "null"}

\* every edge case on valid entities
EdgeSweep(time) ==
    { Input("valid", target, SpellOf(type), edge, Geo(SweepDistance, 90)) :
        target \in Ids, type \in {"circular", "targetted"}, edge \in EdgeCases(time) }

\* every kind of entity with every spell type
EntitySweep(time) ==
    { Input(source, target, SpellOf(type), edge, Geo(SweepDistance, fused)) :
        source \in Sources, target \in Ids \cup {NullTarget}, type \in SpellTypes,
        fused \in {20, 90},
        edge \in { e \in EdgeCases(time) :
                     /\ ~e.blocked_by_windwall /\ ~e.dash.is_dashing
                     /\ ~e.channel.is_channeling
                     /\ e.stasis.is_in_stasis =>
                            e.stasis.end_time = time * CsPerTick + SweepTravel
                     /\ e.channel.is_recalling =>
                            e.channel.time_remaining = SweepTravel } }

Hosts ==
    { [Host0 EXCEPT !.fault = fault, !.local_player = lp, !.ts = ts] :
        fault \in BOOLEAN, lp \in {"valid", "invalid", "zero"},
        ts \in {"none", "approaching", "leaving"} }
    \cup { [Host0 EXCEPT !.should_predict = FALSE], [Host0 EXCEPT !.fog_multiplier = 50],
           [Host0 EXCEPT !.collides = TRUE] }

\* what the SDK layer reads from the host, at a distance inside the range,
\* inside the search buffer and beyond it
HostSweep ==
    { [Input(source, target, SpellOf("circular"), edge, Geo(distance, 90))
          EXCEPT !.host = host] :
        source \in {"valid", "null"}, target \in Ids, host \in Hosts,
        distance \in {SweepDistance, 1050, 1400},
        edge \in {NoEdgeCase, [NoEdgeCase EXCEPT !.is_clone = TRUE]} }

EngineInputs(time) == EdgeSweep(time) \cup EntitySweep(time) \cup HostSweep

\* registries the update() passes of the host leave behind: no tracker, a
\* fresh one, one with a sample, one with two, one whose slot has a window
AllValid == [id \in Ids |-> "valid"]
Sampled(trs, x, time) ==
    PredictionManager_update(trs, AllValid,
                             [id \in Ids |-> CHOOSE o \in Observations : o.position.x = x],
                             time)
Fresh == [id \in Ids |-> NewTracker]
OneSample == Sampled(Fresh, 0, MOVEMENT_SAMPLE_RATE)
TwoSamples == Sampled(OneSample, 100, 2 * MOVEMENT_SAMPLE_RATE)
Windowed ==
    PredictionManager_predict(TwoSamples, AllValid,
                              Input("valid", CHOOSE id \in Ids : TRUE, SpellOf("circular"),
                                    NoEdgeCase, Geo(SweepDistance, 90)),
                              2 * MOVEMENT_SAMPLE_RATE).trackers
\* a target that has stood still since 2 * MOVEMENT_SAMPLE_RATE, and one that
\* was sampled one tick later and stands still since then
StillLong == Sampled(OneSample, 0, 2 * MOVEMENT_SAMPLE_RATE)
StillShort ==
    Sampled(Sampled(Fresh, 0, MOVEMENT_SAMPLE_RATE + 1), 0, 2 * MOVEMENT_SAMPLE_RATE + 1)
EngineRegistries ==
    { [id \in {} |-> NewTracker], Fresh, OneSample, TwoSamples, Windowed, StillLong, StillShort }
EngineTimes == {2 * MOVEMENT_SAMPLE_RATE, MaxTime}

InitEngine ==
    /\ now \in EngineTimes
    /\ objects \in [Ids -> ObjectStates]
    /\ trackers \in { r \in EngineRegistries :
                         \A id \in DOMAIN r : r[id].last_update_time <= now }
    /\ \E in \in EngineInputs(now) : call = Call("input", in, {}, {})
    /\ result = DefaultResult

\* PredictionManager::predict
EnginePredict ==
    /\ call.op = "input"
    /\ \E r \in {PredictionManager_predict(trackers, objects, call.in, now)} :
           /\ trackers' = r.trackers
           /\ result' = r.result
    /\ call' = [call EXCEPT !.op = "predict"]
    /\ UNCHANGED <<now, objects>>

\* CustomPredictionSDK::predict(obj, spell_data)
SdkPredict ==
    /\ call.op = "input"
    /\ \E r \in {CustomPredictionSDK_predict(trackers, objects, call.in, now)} :
           /\ trackers' = r.trackers
           /\ result' = r.result
    /\ call' = [call EXCEPT !.op = "sdk_predict"]
    /\ UNCHANGED <<now, objects>>

\* CustomPredictionSDK::predict(spell_data)
SdkPredictAuto ==
    /\ call.op = "input"
    /\ \E r \in {CustomPredictionSDK_predict_auto(trackers, objects, call.in, now)} :
           /\ trackers' = r.trackers
           /\ result' = r.result
    /\ call' = [call EXCEPT !.op = "sdk_auto"]
    /\ UNCHANGED <<now, objects>>

NextEngine == EnginePredict \/ SdkPredict \/ SdkPredictAuto

SpecEngine == InitEngine /\ [][NextEngine]_vars

\* ------------------------------------------------------------------------
\* One opportunity window followed through a series of evaluations: a
\* caster asks predict() about the same target and slot again and again
\* while the fused hit chance rises from zero to the top value, declines by
\* one point or drops to zero, and game time advances in between.
\* ------------------------------------------------------------------------
MaxWindowTime == 7
MaxSamples == 6

HitChances == {0, 60, 61, 62, 63}

\* a spell whose cooldown of 5 s gives the shortest patience window, 1.5 s
WindowSpell == [Spell("circular", 0) EXCEPT !.cooldown = 5]

last_hit_chance_of(trs, id, slot) ==
    IF id \in DOMAIN trs /\ slot \in DOMAIN trs[id].opportunity_windows
    THEN trs[id].opportunity_windows[slot].last_hit_chance
    ELSE 0

\* the hit chances the geometry may yield next for a slot
next_chances(trs, id, slot) ==
    { hc \in HitChances :
        \/ hc = 0
        \/ hc = 63 /\ last_hit_chance_of(trs, id, slot) = 0
        \/ hc = last_hit_chance_of(trs, id, slot) - 1 }

WindowInputs(trs) ==
    UNION { { Input("valid", id, WindowSpell, NoEdgeCase, Geo(SweepDistance, fused)) :
                fused \in next_chances(trs, id, 0) } : id \in Ids }

samples_room(trs) ==
    \A id \in DOMAIN trs : \A s \in DOMAIN trs[id].opportunity_windows :
        Len(trs[id].opportunity_windows[s].history) <= MaxSamples

InitWindow ==
    /\ now = 0
    /\ objects = AllValid
    /\ trackers = Fresh
    /\ call = Call("init", NoInput, {}, {})
    /\ result = DefaultResult

WindowTick ==
    /\ now < MaxWindowTime
    /\ now' = now + 1
    /\ call' = Call("tick", NoInput, {}, {})
    /\ result' = DefaultResult
    /\ UNCHANGED <<objects, trackers>>

\* PredictionManager::predict for the watched slot
WindowPredict ==
    \E in \in WindowInputs(trackers) :
        \E r \in {PredictionManager_predict(trackers, objects, in, now)} :
            /\ samples_room(r.trackers)
            /\ trackers' = r.trackers
            /\ result' = r.result
            /\ call' = Call("predict", in, {}, {})
            /\ UNCHANGED <<now, objects>>

NextWindow == WindowTick \/ WindowPredict

SpecWindow == InitWindow /\ [][NextWindow]_vars

\* ------------------------------------------------------------------------
\* OpportunityWindow::update applied once to windows that earlier updates
\* left behind: up to ScriptLen samples at the times of ScriptTimes, and the
\* window a burst of MAX_HISTORY_SIZE evaluations in one frame fills.
\* ------------------------------------------------------------------------
ScriptLen == 3
ScriptTimes == {0, 2, 5}
ScriptChances == {0, 60, 63}

RECURSIVE replay(_, _)
replay(w, script) ==
    IF Len(script) = 0 THEN w
    ELSE replay(OpportunityWindow_update(w, Head(script).t, Head(script).hc), Tail(script))

Scripts ==
    UNION { { sc \in [1..n -> [t : ScriptTimes, hc : ScriptChances]] :
                \A i \in 1..(n - 1) : sc[i].t <= sc[i + 1].t } : n \in 0..ScriptLen }

\* what MAX_HISTORY_SIZE updates with the same hit chance at time 0 leave
BurstWindow ==
    [NewWindow EXCEPT !.history = [i \in 1..MAX_HISTORY_SIZE |-> [t |-> 0, hc |-> 60]],
                      !.peak_hit_chance = 60]

ScriptWindows == { replay(NewWindow, sc) : sc \in Scripts } \cup {BurstWindow}

newest_time(w) == IF Len(w.history) = 0 THEN 0 ELSE Last(w.history).t

InitUpdate ==
    /\ now \in 0..MaxWindowTime
    /\ objects = AllValid
    /\ \E w \in ScriptWindows :
          /\ newest_time(w) <= now
          /\ trackers = [id \in Ids |-> [NewTracker EXCEPT !.opportunity_windows = 0 :> w]]
    /\ \E id \in Ids, hc \in ScriptChances :
          call = Call("input", Input("valid", id, WindowSpell, NoEdgeCase,
                                     Geo(SweepDistance, hc)), {}, {})
    /\ result = DefaultResult

\* OpportunityWindow::update(now, hit_chance) on the window of the call's slot
WindowUpdate ==
    /\ call.op = "input"
    /\ trackers' = [trackers EXCEPT
                      ![call.in.target].opportunity_windows[0] =
                          OpportunityWindow_update(@, now, call.in.geo.fused)]
    /\ call' = [call EXCEPT !.op = "window_update"]
    /\ UNCHANGED <<now, objects, result>>

NextUpdate == WindowUpdate

SpecUpdate == InitUpdate /\ [][NextUpdate]_vars

\* ------------------------------------------------------------------------
\* Two targets and two spell slots evaluated in any order, with a hit chance
\* that is high or low, while game time advances.
\* ------------------------------------------------------------------------
MaxSlotTime == 3
MaxSlotSamples == 3

SlotIds == {1, 2}
SpellSlots == {0, 1}
SlotChances == {20, 60}

\* both slots of the first target and the first slot of the others
SlotInputs ==
    { in \in { Input("valid", id, Spell("circular", slot), NoEdgeCase,
                     Geo(SweepDistance, fused)) :
                 id \in SlotIds, slot \in SpellSlots, fused \in SlotChances } :
        in.target = 1 \/ in.spell.spell_slot = 0 }

RECURSIVE SumOver(_, _)
SumOver(F(_), S) ==
    IF S = {} THEN 0
    ELSE LET x == CHOOSE y \in S : TRUE IN F(x) + SumOver(F, S \ {x})

stored_samples(trs) ==
    SumOver(LAMBDA id :
              SumOver(LAMBDA s : Len(trs[id].opportunity_windows[s].history),
                      DOMAIN trs[id].opportunity_windows),
            DOMAIN trs)

InitSlots ==
    /\ now = 0
    /\ objects = [id \in SlotIds |-> "valid"]
    /\ trackers = [id \in {} |-> NewTracker]
    /\ call = Call("init", NoInput, {}, {})
    /\ result = DefaultResult

SlotTick ==
    /\ now < MaxSlotTime
    /\ now' = now + 1
    /\ call' = Call("tick", NoInput, {}, {})
    /\ result' = DefaultResult
    /\ UNCHANGED <<objects, trackers>>

\* PredictionManager::predict for any of the targets and slots
SlotPredict ==
    \E in \in SlotInputs :
        \E r \in {PredictionManager_predict(trackers, objects, in, now)} :
            /\ stored_samples(r.trackers) <= MaxSlotSamples
            /\ trackers' = r.trackers
            /\ result' = r.result
            /\ call' = Call("predict", in, {}, {})
            /\ UNCHANGED <<now, objects>>

NextSlots == SlotTick \/ SlotPredict

SpecSlots == InitSlots /\ [][NextSlots]_vars

\* ------------------------------------------------------------------------
\* The BehaviorPDF cache: spells with slightly different delays evaluated
\* for one target within a frame and across frames, with update() sampling
\* in between. The calls of the current frame since the last update() are
\* logged with the PDF each returned.
\* ------------------------------------------------------------------------
MaxCacheCalls == 4
MaxCacheTime == 6

CacheObservations ==
    { [position |-> Vec(200, 0), is_auto_attacking |-> FALSE, is_casting |-> FALSE, is_cced |-> FALSE],
      [position |-> Vec(100, 0), is_auto_attacking |-> FALSE, is_casting |-> TRUE,  is_cced |-> FALSE],
      [position |-> Vec(100, 0), is_auto_attacking |-> TRUE,  is_casting |-> FALSE, is_cced |-> FALSE] }

\* registries whose newest sample shows the target casting or attacking
Observed(trs, obs, time) == PredictionManager_update(trs, AllValid, [id \in Ids |-> obs], time)
Casting ==
    Observed(OneSample, CHOOSE o \in CacheObservations : o.is_casting, 2 * MOVEMENT_SAMPLE_RATE)
Attacking ==
    Observed(OneSample, CHOOSE o \in CacheObservations : o.is_auto_attacking,
             2 * MOVEMENT_SAMPLE_RATE)
CacheRegistries == {Fresh, TwoSamples, Casting, Attacking}

\* arrival times of 0.46 s, 0.50 s and 0.54 s, and a move speed 15 units/s
\* above the usual one
CacheInputs ==
    { [Input("valid", id, [Spell("circular", 0) EXCEPT !.delay = pd[1]], NoEdgeCase,
             Geo(SweepDistance, 90)) EXCEPT !.geo.move_speed = pd[2]] :
        id \in Ids, pd \in {<<21, 350>>, <<25, 350>>, <<29, 350>>, <<25, 365>>} }

\* what fixes origin, cell size and cell contents of a BehaviorPDF: the
\* predicted position of every sample, the extra samples, the grid radius
pdf_cells(pdf) ==
    [ points |-> [ i \in DOMAIN pdf.samples |->
                     IF pdf.locked THEN pdf.samples[i].position
                     ELSE Vec(pdf.samples[i].position.x
                                + Quot(pdf.samples[i].velocity.x * pdf.prediction_time, CsPerTick),
                              pdf.samples[i].position.z
                                + Quot(pdf.samples[i].velocity.z * pdf.prediction_time, CsPerTick)) ],
      pattern |-> pdf.pattern,
      bias |-> pdf.bias,
      grid_radius |-> pdf.grid_radius,
      total_probability |-> pdf.total_probability ]

CacheCall(op, in, pdfs) ==
    [op |-> op, in |-> in, removed |-> {}, gated |-> {}, pdfs |-> pdfs]

InitCache ==
    /\ now = 2 * MOVEMENT_SAMPLE_RATE
    /\ objects = AllValid
    /\ trackers \in CacheRegistries
    /\ call = CacheCall("init", NoInput, <<>>)
    /\ result = DefaultResult

CacheTick ==
    /\ now < MaxCacheTime
    /\ now' = now + 1
    /\ call' = CacheCall("tick", NoInput, <<>>)
    /\ result' = DefaultResult
    /\ UNCHANGED <<objects, trackers>>

\* CustomPredictionSDK::update_trackers -> PredictionManager::update
CacheUpdate ==
    \E obs \in CacheObservations :
        /\ trackers' = Observed(trackers, obs, now)
        /\ trackers' # trackers
        /\ call' = CacheCall("update", NoInput, <<>>)
        /\ result' = DefaultResult
        /\ UNCHANGED <<now, objects>>

\* PredictionManager::predict
CachePredict ==
    \E in \in CacheInputs :
        \E r \in {PredictionManager_predict(trackers, objects, in, now)} :
            /\ \A s \in DOMAIN r.trackers[in.target].opportunity_windows :
                  Len(r.trackers[in.target].opportunity_windows[s].history) <= MaxCacheCalls
            /\ trackers' = r.trackers
            /\ result' = r.result
            /\ call' = CacheCall("predict", in,
                                 Append(call.pdfs,
                                        [ target |-> in.target,
                                          prediction_time |-> arrival_time_of(in),
                                          move_speed |-> in.geo.move_speed,
                                          built_for |-> r.result.behavior_pdf.prediction_time,
                                          cells |-> pdf_cells(r.result.behavior_pdf) ]))
            /\ UNCHANGED <<now, objects>>

NextCache == CacheTick \/ CacheUpdate \/ CachePredict

SpecCache == InitCache /\ [][NextCache]_vars

\* ------------------------------------------------------------------------
\* Fixed-point geometry of PhysicsPredictor and of the circular aim-point
\* search of HybridFusionEngine.
\*   length               whole game units
\*   angle                1e-4 rad
\*   area                 hundredths of a square unit
\*   physics probability  per mille
\*   score                physics (per mille) x behavior (percent) x
\*                        confidence (percent), so 1.0 is ScoreOne
\* ------------------------------------------------------------------------
PI == 31416
ScoreOne == 1000 * 100 * 100

\* floor of the square root by Newton's iteration
RECURSIVE newton(_, _)
newton(n, x) ==
    LET y == (x + n \div x) \div 2
    IN  IF y < x THEN newton(n, y) ELSE x
Sqrt(n) == IF n = 0 THEN 0 ELSE newton(n, n)

\* floor(10^digits * rem / den) appended to q, one decimal digit at a time
RECURSIVE long_division(_, _, _, _)
long_division(q, rem, den, digits) ==
    IF digits = 0 THEN q
    ELSE long_division(q * 10 + (rem * 10) \div den, (rem * 10) % den, den, digits - 1)
Ratio(num, den, digits) == long_division(num \div den, num % den, den, digits)

\* std::acos of num / den for den > 0, clamped to [-1, 1] as the caller
\* clamps it: sqrt(1 - x) (a0 + a1 x + a2 x^2 + a3 x^3) on 0 <= x <= 1
\* (Abramowitz and Stegun 4.4.45), and pi - acos(-x) below zero
acos(num, den) ==
    LET n == Abs(num)
        x == Ratio(n, den, 4)
        root == Sqrt(Ratio(den - n, den, 8))
        p3 == 18729
        p2 == 74261 - (p3 * x) \div 10000
        p1 == 212114 - (p2 * x) \div 10000
        p0 == 1570729 - (p1 * x) \div 10000
        a == IF n >= den THEN 0 ELSE (root * (p0 \div 100)) \div 10000
    IN  IF num >= 0 THEN a ELSE PI - a

\* angle times a number of square units, in hundredths of a square unit
sector(angle, square) == (angle \div 100) * square + ((angle % 100) * square) \div 100

\* PI * r * r
disk_area(r) == sector(PI, r * r)

ReachableRegion(center, max_radius) ==
    [center |-> center, max_radius |-> max_radius, area |-> disk_area(max_radius)]

\* PhysicsPredictor::compute_reachable_region; speeds in units per second,
\* acceleration in units per second squared, prediction_time in centiseconds
compute_reachable_region(current_pos, current_velocity, prediction_time, move_speed, acceleration) ==
    LET current_speed == magnitude(current_velocity)
        speed_diff == move_speed - current_speed
        accel_time == Min(Quot(speed_diff * 100, Max(acceleration, 1)), prediction_time)
        accel_distance == Quot(current_speed * accel_time, 100)
                            + Quot(acceleration * accel_time * accel_time, 20000)
        max_speed_distance == Quot(move_speed * (prediction_time - accel_time), 100)
    IN  IF prediction_time < 1 THEN ReachableRegion(current_pos, 0)
        ELSE IF speed_diff > 0 /\ acceleration > 0
             THEN ReachableRegion(current_pos, accel_distance + max_speed_distance)
        ELSE ReachableRegion(current_pos, Quot(move_speed * prediction_time, 100))

\* PhysicsPredictor::circle_circle_intersection_area, in hundredths of a
\* square unit; d is the distance of the centres in hundredths of a unit
circle_circle_intersection_area(c1, r1, c2, r2) ==
    LET d2 == (c2.x - c1.x) * (c2.x - c1.x) + (c2.z - c1.z) * (c2.z - c1.z)
        d == Sqrt(d2 * 10000)
        smaller_r == Min(r1, r2)
        alpha == acos((d2 + r1 * r1 - r2 * r2) * 100, 2 * d * r1)
        beta == acos((d2 + r2 * r2 - r1 * r1) * 100, 2 * d * r2)
        \* sqrt_term is outer * inner
        outer == (r1 + r2) * (r1 + r2) - d2
        inner == d2 - (r1 - r2) * (r1 - r2)
        half_root == IF outer > 0 /\ inner > 0
                     THEN (Sqrt(outer * 2500) * Sqrt(inner * 2500)) \div 50
                     ELSE 0
    IN  IF r1 < 1 \/ r2 < 1 THEN 0
        ELSE IF d >= 100 * (r1 + r2) THEN 0
        ELSE IF d <= 100 * Abs(r1 - r2) THEN disk_area(smaller_r)
        ELSE IF d < 1 THEN disk_area(smaller_r)
        ELSE sector(alpha, r1 * r1) + sector(beta, r2 * r2) - half_root

\* the intersection area as a share of the projectile's footprint
compute_physics_hit_probability_of_footprint(cast_position, projectile_radius, reachable_region) ==
    IF reachable_region.area < 1 THEN 0
    ELSE Min(1000,
             circle_circle_intersection_area(cast_position, projectile_radius,
                                             reachable_region.center,
                                             reachable_region.max_radius)
               \div Max(1, disk_area(projectile_radius) \div 1000))

\* PhysicsPredictor::compute_physics_hit_probability, per mille
compute_physics_hit_probability(cast_position, projectile_radius, reachable_region) ==
    IF reachable_region.area < 1 THEN 0
    ELSE Min(1000,
             circle_circle_intersection_area(cast_position, projectile_radius,
                                             reachable_region.center,
                                             reachable_region.max_radius)
               \div Max(1, reachable_region.area \div 1000))

\* BehaviorPredictor::compute_behavior_hit_probability, percent; pdf_grid
\* maps the centres of the cells that carry mass to their mass in percent
compute_behavior_hit_probability(cast_position, projectile_radius, pdf) ==
    LET inside(c) == (c.x - cast_position.x) * (c.x - cast_position.x)
                       + (c.z - cast_position.z) * (c.z - cast_position.z)
                     <= projectile_radius * projectile_radius
        mass(c) == pdf.pdf_grid[c]
    IN  IF pdf.total_probability < 1 THEN 100
        ELSE Clamp(SumOver(mass, { c \in DOMAIN pdf.pdf_grid : inside(c) }), 0, 100)

\* HybridFusionEngine::evaluate_hit_chance_at_point
evaluate_hit_chance_at_point(point, reachable_region, behavior_pdf, projectile_radius, confidence) ==
    compute_physics_hit_probability(point, projectile_radius, reachable_region)
      * compute_behavior_hit_probability(point, projectile_radius, behavior_pdf)
      * confidence

GRID_SEARCH_SIZE == 16
GRADIENT_STEP == 10
GRADIENT_SAMPLES == 8
\* cos and sin of the GRADIENT_SAMPLES angles, scaled by 100
Compass ==
    << Vec(100, 0), Vec(71, 71), Vec(0, 100), Vec(-71, 71),
       Vec(-100, 0), Vec(-71, -71), Vec(0, -100), Vec(71, -71) >>

\* the grid scan of find_optimal_cast_position: candidate k is visited in
\* the order of the two loops and replaces the best one when it scores
\* strictly higher; best_score starts at -1
grid_scan(reachable_region, behavior_pdf, projectile_radius, confidence) ==
    LET step == Quot(reachable_region.max_radius * 2, GRID_SEARCH_SIZE)
        test_pos(k) ==
            Vec(reachable_region.center.x
                  + ((k \div GRID_SEARCH_SIZE) - GRID_SEARCH_SIZE \div 2) * step,
                reachable_region.center.z
                  + ((k % GRID_SEARCH_SIZE) - GRID_SEARCH_SIZE \div 2) * step)
        cells == 0..(GRID_SEARCH_SIZE * GRID_SEARCH_SIZE - 1)
        scores == [ k \in cells |->
                      evaluate_hit_chance_at_point(test_pos(k), reachable_region,
                                                   behavior_pdf, projectile_radius,
                                                   confidence) ]
        pick(score) ==
            LET better == { k \in cells : score[k] > 0 - ScoreOne }
                best == CHOOSE k \in better :
                            /\ \A j \in better : score[j] <= score[k]
                            /\ \A j \in better : score[j] = score[k] => k <= j
            IN  IF better = {}
                THEN [position |-> reachable_region.center, score |-> 0 - ScoreOne]
                ELSE [position |-> test_pos(best), score |-> score[best]]
    IN  Bind(scores, pick)

\* one round of the gradient refinement
gradient_round(best, reachable_region, behavior_pdf, projectile_radius, confidence) ==
    LET score_at(p) == evaluate_hit_chance_at_point(p, reachable_region, behavior_pdf,
                                                    projectile_radius, confidence)
        test_pos(i) == Vec(best.position.x + Quot(GRADIENT_STEP * Compass[i].x, 100),
                           best.position.z + Quot(GRADIENT_STEP * Compass[i].z, 100))
        weights == [ i \in 1..GRADIENT_SAMPLES |-> score_at(test_pos(i)) - best.score ]
        along_x(w, i) == Quot(w[i] * Compass[i].x, 100)
        along_z(w, i) == Quot(w[i] * Compass[i].z, 100)
        step_from(w) ==
            LET gx == SumSeq([ i \in 1..GRADIENT_SAMPLES |-> along_x(w, i) ])
                gz == SumSeq([ i \in 1..GRADIENT_SAMPLES |-> along_z(w, i) ])
                \* the direction with components small enough to square
                k == Max(Abs(gx), Abs(gz)) \div 30000 + 1
                ux == Quot(gx, k)
                uz == Quot(gz, k)
                m == Sqrt(ux * ux + uz * uz)
                moved == Vec(best.position.x + Quot(GRADIENT_STEP * ux, 2 * m),
                             best.position.z + Quot(GRADIENT_STEP * uz, 2 * m))
            IN  \* gradient.magnitude() > EPSILON, EPSILON being 10 score units
                IF k > 1 \/ m > 10
                THEN [position |-> moved, score |-> score_at(moved)]
                ELSE best
    IN  Bind(weights, step_from)

\* HybridFusionEngine::find_optimal_cast_position
find_optimal_cast_position(reachable_region, behavior_pdf, projectile_radius, confidence) ==
    LET round(b) == gradient_round(b, reachable_region, behavior_pdf, projectile_radius,
                                   confidence)
    IN  Bind(Bind(grid_scan(reachable_region, behavior_pdf, projectile_radius, confidence),
                  round),
             round).position

\* ------------------------------------------------------------------------
\* The aim-point search on its own: one search per behaviour, over regions
\* around two targets, behavior PDFs with and without data, projectile
\* radii and confidence scores.
\* ------------------------------------------------------------------------
MaxAimSteps == 2
AimMoveSpeed == 400
AimCenters == {Vec(0, 0), Vec(300, 100)}
\* arrival times in centiseconds: reachable radii of 0, 80, 160, ... units
AimTimes == { 20 * k : k \in 0..MaxAimSteps }
AimRadii == {0, 50, 100}
AimConfidences == {10, 95}

\* no data; mass on two cells ahead of the target; mass where a dash that
\* outruns the move speed carries the target
AimPdfs(center) ==
    { [total_probability |-> 0, pdf_grid |-> <<>>],
      [total_probability |-> 100,
       pdf_grid |-> (Vec(center.x + 40, center.z) :> 60) @@ (Vec(center.x + 60, center.z) :> 40)],
      [total_probability |-> 100,
       pdf_grid |-> (Vec(center.x + 400, center.z) :> 100)] }

AimInputs ==
    UNION { { [ reachable_region |-> compute_reachable_region(c, ZeroVec, t, AimMoveSpeed, 0),
                behavior_pdf |-> pdf, projectile_radius |-> r, confidence |-> conf ] :
                t \in AimTimes, pdf \in AimPdfs(c), r \in AimRadii, conf \in AimConfidences } :
            c \in AimCenters }

InitAim ==
    /\ now = 0
    /\ objects = AllValid
    /\ trackers = Fresh
    /\ \E in \in AimInputs : call = Call("input", in, {}, {})
    /\ result = DefaultResult

\* HybridFusionEngine::find_optimal_cast_position on the inputs of the call
AimSearch ==
    /\ call.op = "input"
    /\ result' = [result EXCEPT !.cast_position =
                     find_optimal_cast_position(call.in.reachable_region, call.in.behavior_pdf,
                                                call.in.projectile_radius, call.in.confidence)]
    /\ call' = [call EXCEPT !.op = "search"]
    /\ UNCHANGED <<now, objects, trackers>>

NextAim == AimSearch

SpecAim == InitAim /\ [][NextAim]_vars

\* ------------------------------------------------------------------------
\* The physics probability on its own: one aim point and one projectile
\* radius, evaluated against reachable regions of the same target at up to
\* MaxEvaluations arrival times. The evaluations are logged.
\* ------------------------------------------------------------------------
MaxEvaluations == 2
MaxRegionSteps == 5
\* arrival times in centiseconds: reachable radii of 0, 40, 80, ... units
RegionTimes == { 10 * k : k \in 0..MaxRegionSteps }
PhysicsAims ==
    { Vec(0, 0), Vec(25, 0), Vec(50, 0), Vec(30, 40), Vec(75, 0), Vec(100, 0),
      Vec(60, 80), Vec(150, 0) }

PhysicsCall(op, in, log) ==
    [op |-> op, in |-> in, removed |-> {}, gated |-> {}, log |-> log]

InitPhysics ==
    /\ now = 0
    /\ objects = AllValid
    /\ trackers = Fresh
    /\ \E p \in PhysicsAims, r \in AimRadii :
          call = PhysicsCall("input", [cast_position |-> p, projectile_radius |-> r,
                                       center |-> ZeroVec], <<>>)
    /\ result = DefaultResult

\* compute_reachable_region for one arrival time, then
\* compute_physics_hit_probability of the aim point against that region
PhysicsEvaluate ==
    \E t \in RegionTimes :
        \E region \in {compute_reachable_region(call.in.center, ZeroVec, t, AimMoveSpeed, 0)} :
            /\ Len(call.log) < MaxEvaluations
            /\ call' = PhysicsCall("physics", call.in,
                                   Append(call.log,
                                          [ max_radius |-> region.max_radius,
                                            area |-> region.area,
                                            probability |->
                                              compute_physics_hit_probability(
                                                  call.in.cast_position,
                                                  call.in.projectile_radius, region) ]))
            /\ result' = [result EXCEPT !.physics_contribution = Last(call'.log).probability]
            /\ UNCHANGED <<now, objects, trackers>>

NextPhysics == PhysicsEvaluate

SpecPhysics == InitPhysics /\ [][NextPhysics]_vars

\* ------------------------------------------------------------------------
\* The stationary boost on its own, with the clock and the stationary timer
\* in centiseconds: one tracker, asked for its boost at up to
\* MaxBoostQueries times. The answers are logged.
\* ------------------------------------------------------------------------
MaxBoostQueries == 2
MaxBoostSteps == 13
BoostTimes == { 10 * k : k \in 0..MaxBoostSteps }
BoostTrackers ==
    { [NewTracker EXCEPT !.is_currently_stationary = s, !.stationary_start_time = st] :
        s \in BOOLEAN, st \in {0, 20} }

InitBoost ==
    /\ now = 0
    /\ objects = AllValid
    /\ trackers \in { [id \in Ids |-> t] : t \in { b \in BoostTrackers :
                          b.is_currently_stationary \/ b.stationary_start_time = 0 } }
    /\ call = PhysicsCall("init", NoInput, <<>>)
    /\ result = DefaultResult

\* get_stationary_hitchance_boost(current_time) at a time not before the
\* stationary timer started
BoostQuery ==
    \E id \in Ids, current_time \in BoostTimes :
        /\ Len(call.log) < MaxBoostQueries
        /\ current_time >= trackers[id].stationary_start_time
        /\ call' = PhysicsCall("boost", NoInput,
                               Append(call.log,
                                      [ stationary |-> trackers[id].is_currently_stationary,
                                        duration |-> current_time - trackers[id].stationary_start_time,
                                        boost |-> get_stationary_hitchance_boost_at(
                                                      trackers[id], current_time, CsPerTick) ]))
        /\ UNCHANGED <<now, objects, trackers, result>>

NextBoost == BoostQuery

SpecBoost == InitBoost /\ [][NextBoost]_vars

\* ------------------------------------------------------------------------
\* One tracker followed through a walk: the target stands still, zigzags or
\* runs straight on, is sampled as soon as the sample interval allows, may
\* drop out of sight, and behaviour PDFs are built for it meanwhile. The history holds PatternHistorySize samples, one
\* analysis period, so that a full history is analysed at every sample.
\* ------------------------------------------------------------------------
MaxPatternTime == 47
MaxIdle == 7
PatternHistorySize == ANALYZE_EVERY

\* what the target covers in one sample interval
Stand == Vec(0, 0)
Up == Vec(200, 100)
Down == Vec(200, -100)
Moves == {Stand, Up, Down}

Repeat(x, n) == [i \in 1..n |-> x]

position_of(t) == IF Len(t.movement_history) = 0 THEN ZeroVec ELSE Last(t.movement_history).position

\* update() on a visible target that has made the given move
WalkStep(t, status, move, time) ==
    TargetBehaviorTracker_update_sized(
        t, status,
        [ position |-> Vec(position_of(t).x + move.x, position_of(t).z + move.z),
          is_auto_attacking |-> FALSE, is_casting |-> FALSE, is_cced |-> FALSE ],
        time, PatternHistorySize)

\* the tracker after the walk, sampled once per sample interval
RECURSIVE Walk(_, _, _)
Walk(t, moves, time) ==
    IF Len(moves) = 0 THEN t
    ELSE Walk(WalkStep(t, "valid", Head(moves), time), Tail(moves), time + MOVEMENT_SAMPLE_RATE)

\* walks that fill the history: standing, then zigzagging
PatternWalks ==
    { Repeat(Stand, PatternHistorySize - Len(z)) \o z :
        z \in { <<>>, <<Up, Down, Up, Down>>, <<Up, Down, Up, Down, Up, Down>>,
                <<Up, Down, Up, Down, Up, Down, Up, Down>>,
                <<Up, Down, Up, Down, Up, Down, Up, Down, Up>> } }

PatternSpeed == 350
PatternArrival == 25

PatternCall(op, pdf) ==
    [op |-> op, in |-> NoInput, removed |-> {}, gated |-> {}, pdf |-> pdf]

InitPattern ==
    /\ now = PatternHistorySize * MOVEMENT_SAMPLE_RATE
    /\ objects = AllValid
    /\ trackers \in { [id \in Ids |-> Walk(NewTracker, w, MOVEMENT_SAMPLE_RATE)] : w \in PatternWalks }
    /\ call = PatternCall("init", EmptyPDF)
    /\ result = DefaultResult

\* the clock runs on until the next sample is due; it runs on for MaxIdle
\* ticks while the target is out of sight
PatternTick ==
    /\ now < MaxPatternTime
    /\ \A id \in Ids :
          now - trackers[id].last_update_time <
              (IF is_valid(objects, id) THEN MOVEMENT_SAMPLE_RATE ELSE MaxIdle)
    /\ now' = now + 1
    /\ call' = PatternCall("tick", EmptyPDF)
    /\ UNCHANGED <<objects, trackers, result>>

\* the target drops out of sight or comes back
PatternHide ==
    \E id \in Ids :
        /\ is_valid(objects, id)
        /\ objects' = [objects EXCEPT ![id] = "invalid"]
        /\ call' = PatternCall("hide", EmptyPDF)
        /\ UNCHANGED <<now, trackers, result>>

PatternShow ==
    \E id \in Ids :
        /\ ~is_valid(objects, id)
        /\ objects' = [objects EXCEPT ![id] = "valid"]
        /\ call' = PatternCall("show", EmptyPDF)
        /\ UNCHANGED <<now, trackers, result>>

\* TargetBehaviorTracker::update
PatternUpdate ==
    \E id \in Ids, move \in Moves :
        /\ trackers' = [trackers EXCEPT ![id] = WalkStep(trackers[id], objects[id], move, now)]
        /\ trackers' # trackers
        /\ call' = PatternCall("update", EmptyPDF)
        /\ UNCHANGED <<now, objects, result>>

\* TargetBehaviorTracker::build_behavior_pdf, which the engine calls for
\* valid targets only
PatternPdf ==
    \E id \in Ids :
        \E r \in {build_behavior_pdf(trackers[id], PatternArrival, PatternSpeed, now)} :
            /\ is_valid(objects, id)
            /\ trackers' = [trackers EXCEPT ![id] = r.tracker]
            /\ call' = PatternCall("pdf", r.pdf)
            /\ UNCHANGED <<now, objects, result>>

NextPattern == PatternTick \/ PatternHide \/ PatternShow \/ PatternUpdate \/ PatternPdf

SpecPattern == InitPattern /\ [][NextPattern]_vars

\* ------------------------------------------------------------------------
\* The stationary timer: a new tracker sampled at any times the sample
\* interval allows while its target stands, creeps or runs. The history is
\* long enough to keep every sample taken.
\* ------------------------------------------------------------------------
MaxStationaryTime == 11

\* moves that give speeds of 0, just below, at and far above
\* STATIONARY_VELOCITY_THRESHOLD when sampled MOVEMENT_SAMPLE_RATE apart
Creep == Vec(STATIONARY_VELOCITY_THRESHOLD * MOVEMENT_SAMPLE_RATE - 1, 0)
Pace == Vec(STATIONARY_VELOCITY_THRESHOLD * MOVEMENT_SAMPLE_RATE, 0)
StationaryMoves == {Stand, Creep, Pace, Up}

InitStationary ==
    /\ now = 0
    /\ objects = AllValid
    /\ trackers = [id \in Ids |-> NewTracker]
    /\ call = PatternCall("init", EmptyPDF)
    /\ result = DefaultResult

StationaryTick ==
    /\ now < MaxStationaryTime
    /\ now' = now + 1
    /\ call' = PatternCall("tick", EmptyPDF)
    /\ UNCHANGED <<objects, trackers, result>>

\* TargetBehaviorTracker::update
StationaryUpdate ==
    \E id \in Ids, move \in StationaryMoves :
        /\ trackers' = [trackers EXCEPT ![id] = WalkStep(trackers[id], objects[id], move, now)]
        /\ trackers' # trackers
        /\ call' = PatternCall("update", EmptyPDF)
        /\ UNCHANGED <<now, objects, result>>

NextStationary == StationaryTick \/ StationaryUpdate

SpecStationary == InitStationary /\ [][NextStationary]_vars

\* ------------------------------------------------------------------------
\* HybridFusionEngine::compute_confidence_score, in ten-thousandths
\* ------------------------------------------------------------------------
ConfidenceOne == 10000
OBVIOUS_HIT_CONFIDENCE == 9500
\* per unit of distance and per millisecond of ping, in ten-thousandths
CONFIDENCE_DISTANCE_DECAY == 5
CONFIDENCE_LATENCY_FACTOR == 5
ANIMATION_LOCK_CONFIDENCE_BOOST == 3000
\* 1 / e
INVERSE_E == 3679

\* std::exp(-x) for x >= 0 in ten-thousandths: the series on the fractional
\* part, 1/e for every whole unit
RECURSIVE exp_neg(_)
exp_neg(x) ==
    IF x >= ConfidenceOne THEN (INVERSE_E * exp_neg(x - ConfidenceOne)) \div ConfidenceOne
    ELSE LET t2 == (x * x) \div (2 * ConfidenceOne)
             t3 == (t2 * x) \div (3 * ConfidenceOne)
             t4 == (t3 * x) \div (4 * ConfidenceOne)
             t5 == (t4 * x) \div (5 * ConfidenceOne)
         IN  ConfidenceOne - x + t2 - t3 + t4 - t5

dot(a, b) == a.x * b.x + a.z * b.z

\* the last five velocities: the newest above 10 units/s, none of the four
\* before it below 10 units/s or more than DIRECTION_TOLERANCE off its
\* direction (dot < 0.9 for the unit vectors)
is_straight_line(h) ==
    LET base == h[Len(h)].velocity
        speed_above(vel) == dot(vel, vel) > MOVING_SPEED * MOVING_SPEED
        speed_below(vel) == dot(vel, vel) < MOVING_SPEED * MOVING_SPEED
        off(vel) == 10 * dot(base, vel) < 9 * Sqrt(dot(base, base) * dot(vel, vel))
    IN  /\ Len(h) >= 5
        /\ speed_above(base)
        /\ \A i \in (Len(h) - 4)..(Len(h) - 1) :
              ~speed_below(h[i].velocity) /\ ~off(h[i].velocity)

\* an override that does not look at the animation lock
is_obvious_hit_ignores_lock(status, t, edge_cases) ==
    IF status # "valid" THEN FALSE
    ELSE IF edge_cases.channel.is_channeling \/ edge_cases.channel.is_recalling THEN TRUE
    ELSE is_straight_line(t.movement_history)

is_obvious_hit(status, t, edge_cases) ==
    IF status # "valid" THEN FALSE
    ELSE IF is_animation_locked(t) THEN TRUE
    ELSE IF edge_cases.channel.is_channeling \/ edge_cases.channel.is_recalling THEN TRUE
    ELSE is_straight_line(t.movement_history)

\* in: target status, distance, ping in ms, projectile_speed, move_speed and
\* the edge cases; lock_boost is ANIMATION_LOCK_CONFIDENCE_BOOST
compute_confidence_score_boosted(in, t, lock_boost) ==
    LET c1 == (ConfidenceOne * exp_neg(in.distance * CONFIDENCE_DISTANCE_DECAY)) \div ConfidenceOne
        c2 == (c1 * exp_neg(in.ping * CONFIDENCE_LATENCY_FACTOR)) \div ConfidenceOne
        c3 == IF in.projectile_speed >= FLT_MAX \div 2 THEN (c2 * 12) \div 10
              ELSE IF in.projectile_speed < 1000 THEN (c2 * 9) \div 10
              ELSE c2
        mobility_penalty == Clamp(in.move_speed * 20, ConfidenceOne \div 2, (3 * ConfidenceOne) \div 2)
        c4 == (c3 * ConfidenceOne) \div mobility_penalty
        c5 == IF Len(t.movement_history) < MIN_SAMPLES_FOR_BEHAVIOR
              THEN (c4 * Len(t.movement_history)) \div MIN_SAMPLES_FOR_BEHAVIOR
              ELSE c4
        c6 == IF is_animation_locked(t)
              THEN (c5 * (ConfidenceOne + lock_boost)) \div ConfidenceOne
              ELSE c5
    IN  IF is_obvious_hit(in.status, t, in.edge) THEN OBVIOUS_HIT_CONFIDENCE
        ELSE Clamp(c6, ConfidenceOne \div 10, ConfidenceOne)

compute_confidence_score(in, t) ==
    compute_confidence_score_boosted(in, t, ANIMATION_LOCK_CONFIDENCE_BOOST)

\* ------------------------------------------------------------------------
\* The confidence score on its own: trackers after short walks, one more
\* sample that may show the target attacking, casting or crowd-controlled,
\* and scores asked for over distances, pings, projectile and move speeds.
\* ------------------------------------------------------------------------
Veer == Vec(200, 60)
ConfidenceWalks ==
    { <<>>, <<Up>>, <<Up, Up, Up, Up, Up>>, <<Up, Up, Veer, Up, Veer, Up>>,
      <<Up, Up, Up, Down, Up, Up>>, <<Up, Up, Up, Stand, Up, Up>>, <<Up, Up, Up, Up, Up, Stand>> }

ConfidenceFlags ==
    { [is_auto_attacking |-> a, is_casting |-> c, is_cced |-> s] :
        <<a, c, s>> \in { <<FALSE, FALSE, FALSE>>, <<TRUE, FALSE, FALSE>>,
                          <<FALSE, TRUE, FALSE>>, <<FALSE, FALSE, TRUE>> } }

ConfidenceInputs ==
    { [ status |-> st, distance |-> d, ping |-> p, projectile_speed |-> ps,
        move_speed |-> ms, edge |-> [NoEdgeCase EXCEPT !.channel = ch] ] :
        st \in {"valid", "invalid"}, d \in {0, 600, 3000}, p \in {0, 60}, ps \in {800, 1500, FLT_MAX},
        ms \in {200, 350, 900},
        ch \in { NoChannel, [NoChannel EXCEPT !.is_channeling = TRUE],
                 [NoChannel EXCEPT !.is_recalling = TRUE] } }

ConfidenceCall(op, in, score) ==
    [op |-> op, in |-> in, removed |-> {}, gated |-> {}, score |-> score]

NoConfidenceInput == CHOOSE in \in ConfidenceInputs : TRUE

InitConfidence ==
    /\ now \in { (Len(w) + 1) * MOVEMENT_SAMPLE_RATE : w \in ConfidenceWalks }
    /\ objects = AllValid
    /\ trackers \in { [id \in Ids |-> Walk(NewTracker, w, MOVEMENT_SAMPLE_RATE)] :
                        w \in { v \in ConfidenceWalks : (Len(v) + 1) * MOVEMENT_SAMPLE_RATE = now } }
    /\ call = ConfidenceCall("init", NoConfidenceInput, 0)
    /\ result = DefaultResult

\* TargetBehaviorTracker::update for a target that keeps its course
ConfidenceUpdate ==
    \E id \in Ids, flags \in ConfidenceFlags :
        /\ trackers' = [trackers EXCEPT ![id] =
              TargetBehaviorTracker_update_sized(
                  trackers[id], objects[id],
                  [ position |-> Vec(position_of(trackers[id]).x + Up.x,
                                     position_of(trackers[id]).z + Up.z),
                    is_auto_attacking |-> flags.is_auto_attacking,
                    is_casting |-> flags.is_casting, is_cced |-> flags.is_cced ],
                  now, PatternHistorySize)]
        /\ trackers' # trackers
        /\ call' = ConfidenceCall("update", NoConfidenceInput, 0)
        /\ UNCHANGED <<now, objects, result>>

\* HybridFusionEngine::compute_confidence_score, asked for once per tracker
\* state
ConfidenceScore ==
    \E id \in Ids, in \in ConfidenceInputs :
        /\ call.op # "confidence"
        /\ call' = ConfidenceCall("confidence", in, compute_confidence_score(in, trackers[id]))
        /\ UNCHANGED <<now, objects, trackers, result>>

NextConfidence == ConfidenceUpdate \/ ConfidenceScore

SpecConfidence == InitConfidence /\ [][NextConfidence]_vars

\* ------------------------------------------------------------------------
\* The opportunity signals on their own: update_opportunity_signals applied
\* up to MaxScoreCalls times, with the clock running in between, to windows
\* that earlier updates left behind and to a window filled with
\* MAX_HISTORY_SIZE samples. Each call is logged with the peak the window
\* had before and right after its update().
\* ------------------------------------------------------------------------
MaxScoreCalls == 3
MaxScoreTime == 8
MaxScoreScript == 1

\* the windows that scripts of at most MaxScoreScript updates leave, and the
\* full one
ScoreWindows ==
    { replay(NewWindow, sc) : sc \in { s \in Scripts : Len(s) <= MaxScoreScript } }
      \cup {BurstWindow}

ScoreCall(op, hit_chance, peak_before, peak, calls) ==
    [ op |-> op, in |-> NoInput, removed |-> {}, gated |-> {}, hit_chance |-> hit_chance,
      peak_before |-> peak_before, peak |-> peak, calls |-> calls ]

InitScore ==
    /\ now \in {0, 5, 7}
    /\ objects = AllValid
    /\ \E w \in ScoreWindows :
          /\ newest_time(w) <= now
          /\ trackers = [id \in Ids |-> [NewTracker EXCEPT !.opportunity_windows = 0 :> w]]
    /\ call = ScoreCall("init", 0, 0, 0, 0)
    /\ result = DefaultResult

ScoreTick ==
    /\ now < MaxScoreTime
    /\ call.op # "tick"
    /\ \E dt \in {1, 3} : now' = Min(now + dt, MaxScoreTime)
    /\ call' = [call EXCEPT !.op = "tick"]
    /\ UNCHANGED <<objects, trackers, result>>

\* HybridFusionEngine::update_opportunity_signals at the end of an evaluation
\* that found the given hit chance
ScoreEvaluate ==
    \E id \in Ids, hc \in ScriptChances :
        \E r \in {update_opportunity_signals([DefaultResult EXCEPT !.hit_chance = hc, !.is_valid = TRUE],
                                             "valid", WindowSpell, trackers[id], now)} :
            /\ call.calls < MaxScoreCalls
            /\ trackers' = [trackers EXCEPT ![id] = r.tracker]
            /\ result' = r.result
            /\ call' = ScoreCall("signals", hc,
                                 trackers[id].opportunity_windows[0].peak_hit_chance,
                                 OpportunityWindow_update(trackers[id].opportunity_windows[0],
                                                          now, hc).peak_hit_chance,
                                 call.calls + 1)
            /\ UNCHANGED <<now, objects>>

NextScore == ScoreTick \/ ScoreEvaluate

SpecScore == InitScore /\ [][NextScore]_vars

\* ------------------------------------------------------------------------
\* Properties
\* ------------------------------------------------------------------------
tracked(id) == id \in DOMAIN trackers
history_of(trs, id) == trs[id].movement_history
is_predict_step == call'.op = "predict"
is_update_step == call'.op = "update"

\* C1: predict() never appends motion samples: across every predict() call
\* each tracker keeps exactly the movement history it had before the call,
\* and a tracker created by the call starts with an empty history.
C1_PredictKeepsHistories ==
    [][ is_predict_step =>
          /\ DOMAIN trackers \subseteq DOMAIN trackers'
          /\ \A id \in DOMAIN trackers' :
                history_of(trackers', id) =
                    IF tracked(id) THEN history_of(trackers, id) ELSE <<>> ]_vars

\* a valid prediction was returned for a tracker that holds samples
W_C1 ==
    /\ call.op = "predict"
    /\ result.is_valid
    /\ tracked(call.in.target)
    /\ Len(history_of(trackers, call.in.target)) > 0

\* C2 as stated: a predict() call on an already-tracked target leaves the
\* whole tracker unchanged, opportunity windows and PDF cache included.
C2_PredictLeavesTrackerUntouched ==
    [][ is_predict_step /\ tracked(call'.in.target) =>
          trackers'[call'.in.target] = trackers[call'.in.target] ]_vars

\* C2 amended: a predict() call on an already-tracked target leaves the
\* sampled state of the tracker unchanged (movement history, last sample
\* time, dodge pattern, stationary flag and timer); only the per-slot
\* opportunity windows and the PDF cache may change.
C2_PredictLeavesSampledState ==
    [][ is_predict_step /\ tracked(call'.in.target) =>
          LET old == trackers[call'.in.target]
              new == trackers'[call'.in.target]
          IN  /\ new.movement_history = old.movement_history
              /\ new.last_update_time = old.last_update_time
              /\ new.dodge_pattern = old.dodge_pattern
              /\ new.is_currently_stationary = old.is_currently_stationary
              /\ new.stationary_start_time = old.stationary_start_time ]_vars

\* predict() has written both the opportunity window and the PDF cache of a
\* tracker that holds samples
W_C2 ==
    /\ call.op = "predict"
    /\ tracked(call.in.target)
    /\ LET t == trackers[call.in.target]
       IN  /\ Len(t.movement_history) > 0
           /\ t.cache.cached_timestamp = now
           /\ call.in.spell.spell_slot \in DOMAIN t.opportunity_windows
           /\ t.opportunity_windows[call.in.spell.spell_slot].last_hit_chance = result.hit_chance
           /\ result.is_valid

\* C3: sampling is interval-gated: an update() less than MOVEMENT_SAMPLE_RATE
\* after the last accepted sample leaves the tracker as it was (so a second
\* update() at the same game time appends nothing), and consecutive
\* snapshots are at least one sampling interval apart.
C3_SamplingIsGated ==
    /\ [][ is_update_step =>
             \A id \in DOMAIN trackers \cap DOMAIN trackers' :
                 ( /\ Len(history_of(trackers, id)) > 0
                   /\ now - Last(history_of(trackers, id)).timestamp < MOVEMENT_SAMPLE_RATE )
                 => trackers'[id] = trackers[id] ]_vars
    /\ [](\A id \in DOMAIN trackers :
             \A i \in 2..Len(history_of(trackers, id)) :
                 history_of(trackers, id)[i].timestamp
                     - history_of(trackers, id)[i - 1].timestamp >= MOVEMENT_SAMPLE_RATE)

\* an update() pass found a tracker with two samples inside its interval
W_C3 ==
    /\ call.op = "update"
    /\ \E id \in call.gated :
          /\ tracked(id)
          /\ Len(history_of(trackers, id)) = 2
          /\ now - Last(history_of(trackers, id)).timestamp < MOVEMENT_SAMPLE_RATE

\* C4: a tracker leaves the registry only in an update() pass, only when its
\* object is absent from the object manager, and only when it holds no
\* samples or its last sample is older than TRACKER_TIMEOUT; a tracker whose
\* object exists is kept however old its last sample is.
C4_RemovalOnlyWhenAbsentAndStale ==
    [][ \A id \in DOMAIN trackers \ DOMAIN trackers' :
          /\ is_update_step
          /\ ~get_object_by_network_id(objects, id)
          /\ \/ Len(history_of(trackers, id)) = 0
             \/ now - Last(history_of(trackers, id)).timestamp > TRACKER_TIMEOUT ]_vars

\* an update() pass kept the tracker of an existing but invalid object whose
\* last sample is older than the timeout
W_C4 ==
    /\ call.op = "update"
    /\ \E id \in DOMAIN trackers :
          /\ objects[id] = "invalid"
          /\ Len(history_of(trackers, id)) > 0
          /\ now - Last(history_of(trackers, id)).timestamp > TRACKER_TIMEOUT

\* C5: eventual eviction: a tracker whose object is absent is removed at the
\* next update() pass if it holds no samples or its last sample is older than
\* TRACKER_TIMEOUT, and while the clock can still run past that timeout every
\* tracker of an absent object is eventually removed (or its object returns).
can_time_out(id) ==
    \/ Len(history_of(trackers, id)) = 0
    \/ Last(history_of(trackers, id)).timestamp + TRACKER_TIMEOUT < MaxTime

C5_EventualEviction ==
    /\ [][ is_update_step =>
             \A id \in DOMAIN trackers :
                 ( /\ objects[id] = "absent"
                   /\ \/ Len(history_of(trackers, id)) = 0
                      \/ now - Last(history_of(trackers, id)).timestamp > TRACKER_TIMEOUT )
                 => id \notin DOMAIN trackers' ]_vars
    /\ \A id \in Ids :
          (tracked(id) /\ objects[id] = "absent" /\ can_time_out(id))
              ~> (~tracked(id) \/ objects[id] # "absent")

\* an update() pass evicted a tracker that held samples
W_C5 ==
    /\ call.op = "update"
    /\ \E r \in call.removed : r.samples > 0 /\ objects[r.id] = "absent"

\* what the entry-point call under way was given
entities_valid == call.in.source = "valid" /\ target_is_valid(objects, call.in.target)
windows_of(trs, id) == IF id \in DOMAIN trs THEN trs[id].opportunity_windows ELSE NoWindows
travel_time == arrival_time_of(call.in)
stasis_remaining == call.in.edge.stasis.end_time - now * CsPerTick
filtered == call.in.edge.is_clone \/ call.in.edge.blocked_by_windwall

\* C6: fail closed on bad entities: whenever the source or the target is
\* null or invalid, PredictionManager::predict returns a result with
\* is_valid = FALSE, whatever the spell, the edge cases and the tracker state.
C6_FailClosedOnBadEntities ==
    (call.op = "predict" /\ ~entities_valid) => ~result.is_valid

\* predict() was called with a null source on a tracked, valid target in a
\* stasis that a valid source would have hit, and returned an invalid result
W_C6 ==
    /\ call.op = "predict"
    /\ call.in.source = "null"
    /\ target_is_valid(objects, call.in.target)
    /\ tracked(call.in.target)
    /\ Len(history_of(trackers, call.in.target)) > 0
    /\ call.in.edge.stasis.is_in_stasis /\ ~filtered
    /\ travel_time = stasis_remaining
    /\ ~result.is_valid

\* C7 as stated: when the hybrid engine throws during a public prediction
\* call (predict on a given target, or auto-target predict), the call returns
\* an invalid result with hitchance any and nothing escapes to the host.
C7_NoFaultEscapes ==
    (call.op \in {"sdk_predict", "sdk_auto"} /\ call.in.host.fault) =>
        (~result.escaped /\ ~result.is_valid /\ result.hitchance = "any")

\* C8: clone and windwall take priority over every other edge case: when the
\* analysis of valid entities flags a clone or a windwall, predict() returns
\* is_valid = FALSE with a non-empty reasoning, whatever the stasis, channel
\* and dash state, and leaves the target's opportunity windows as they were.
C8_CloneAndWindwallFirst ==
    [][ (call'.op = "predict" /\ entities_valid' /\ filtered') =>
          /\ ~result'.is_valid
          /\ result'.reasoning # ""
          /\ windows_of(trackers', call'.in.target) = windows_of(trackers, call'.in.target)
      ]_vars

\* predict() rejected a clone that stood in a stasis with exact timing, on a
\* tracker that holds an opportunity window
W_C8 ==
    /\ call.op = "predict" /\ entities_valid
    /\ call.in.edge.is_clone
    /\ call.in.edge.stasis.is_in_stasis /\ travel_time = stasis_remaining
    /\ windows_of(trackers, call.in.target) # NoWindows
    /\ ~result.is_valid

\* C9 as stated: for a target in stasis (valid entities, no clone, no
\* windwall) the result is valid at the exit position with hit chance and
\* confidence 100% whenever the travel time does not exceed the remaining
\* stasis time, and invalid with a reasoning when it exceeds it.
C9_StasisWhenTravelFits ==
    (call.op = "predict" /\ entities_valid /\ ~filtered /\ call.in.edge.stasis.is_in_stasis) =>
        /\ travel_time <= stasis_remaining =>
              /\ result.is_valid
              /\ result.cast_position = call.in.edge.stasis.exit_position
              /\ result.hit_chance = 100 /\ result.confidence_score = 100
        /\ travel_time > stasis_remaining =>
              ~result.is_valid /\ result.reasoning # ""

\* C9 amended: for a target in stasis (valid entities, no clone, no windwall)
\* the result is valid at the exit position with hit chance and confidence
\* 100% only when the travel time equals the remaining stasis time; when the
\* travel time exceeds it the result is invalid, citing the travel time, and
\* when the travel time is shorter the result is invalid too, asking to wait.
C9_StasisExactTiming ==
    (call.op = "predict" /\ entities_valid /\ ~filtered /\ call.in.edge.stasis.is_in_stasis) =>
        /\ travel_time = stasis_remaining =>
              /\ result.is_valid
              /\ result.cast_position = call.in.edge.stasis.exit_position
              /\ result.hit_chance = 100 /\ result.confidence_score = 100
        /\ travel_time > stasis_remaining =>
              /\ ~result.is_valid
              /\ result.reasoning = "Stasis timing impossible - travel time too long"
        /\ travel_time < stasis_remaining =>
              /\ ~result.is_valid
              /\ result.reasoning = "Wait for stasis exit timing"

\* predict() was asked about a stasis that outlasts the travel time and
\* answered that the cast has to wait
W_C9 ==
    /\ call.op = "predict" /\ entities_valid /\ ~filtered
    /\ call.in.edge.stasis.is_in_stasis
    /\ travel_time < stasis_remaining
    /\ result.reasoning = "Wait for stasis exit timing"

\* C10: for a target that is channeling or recalling (valid entities, no
\* clone, no windwall, no stasis) the result is invalid when the travel time
\* exceeds the remaining channel time, and otherwise valid with the cast
\* position at the channel position and a hit chance of 100%.
C10_ChannelHandling ==
    ( /\ call.op = "predict" /\ entities_valid /\ ~filtered
      /\ ~call.in.edge.stasis.is_in_stasis
      /\ call.in.edge.channel.is_channeling \/ call.in.edge.channel.is_recalling ) =>
        IF travel_time > call.in.edge.channel.time_remaining
        THEN ~result.is_valid
        ELSE /\ result.is_valid
             /\ result.cast_position = call.in.edge.channel.position
             /\ result.hit_chance = 100

\* predict() rejected a channel that ends before the spell lands, while the
\* target was dashing as well
W_C10 ==
    /\ call.op = "predict" /\ entities_valid /\ ~filtered
    /\ ~call.in.edge.stasis.is_in_stasis
    /\ call.in.edge.channel.is_channeling
    /\ call.in.edge.dash.is_dashing
    /\ travel_time > call.in.edge.channel.time_remaining
    /\ ~result.is_valid
    /\ result.reasoning = "Channel will finish before spell arrives"

\* the input of the last call with the dash taken out of its edge cases
without_dash(in) == [in EXCEPT !.edge.dash = NoDash]

\* the dash branch is reached and finds the endpoint in range and the spell
\* landing before the dash ends
dash_arrives_early(in, time) ==
    /\ ~in.edge.is_clone /\ ~in.edge.blocked_by_windwall
    /\ ~in.edge.stasis.is_in_stasis
    /\ ~in.edge.channel.is_channeling /\ ~in.edge.channel.is_recalling
    /\ dash_branch_result(in, time).reasoning = "Enemy dashing - spell arrives before dash ends"

\* C11 as stated: when the target is dashing, dash prediction is enabled, the
\* dash endpoint is within range and the spell would arrive before the dash
\* ends, the result of predict() is as valid as the same evaluation without
\* the dash and carries a confidence_score reduced by the dash handling: at
\* most the 30% set for this case and below that of the evaluation without
\* the dash.
C11_DashEarlyArrivalReducesConfidence ==
    [][ ( /\ call'.op = "predict" /\ entities_valid'
          /\ dash_arrives_early(call'.in, now) ) =>
          \E plain \in {PredictionManager_predict(trackers, objects,
                                                  without_dash(call'.in), now).result} :
              /\ result'.is_valid = plain.is_valid
              /\ plain.is_valid =>
                    /\ result'.confidence_score <= 30
                    /\ result'.confidence_score < plain.confidence_score
      ]_vars

\* the tracker the last call evaluated, and the floor its stationary timer gives
stationary_floor ==
    IF tracked(call.in.target)
    THEN get_stationary_hitchance_boost(trackers[call.in.target], now)
    ELSE 0

\* C12 as stated: every valid result of predict() for a target that has been
\* stationary for at least 1.0 s has hit_chance >= 75%, and for 0.5 s to 1.0 s
\* hit_chance >= the boost value, for every effect shape (point, circular,
\* linear, cone, vector).
C12_StationaryFloor ==
    (call.op = "predict" /\ result.is_valid) => result.hit_chance >= stationary_floor

\* the key update_opportunity_signals files the window of a spell under
window_slot(spell) ==
    IF spell.spell_slot < -1 \/ spell.spell_slot > 10 THEN 0 ELSE spell.spell_slot

\* the window of (target, slot) exists and was handed a sample or was reset
\* at the given time
window_touched(trs, in, time) ==
    /\ in.target \in DOMAIN trs
    /\ window_slot(in.spell) \in DOMAIN trs[in.target].opportunity_windows
    /\ LET w == trs[in.target].opportunity_windows[window_slot(in.spell)]
       IN  \/ Len(w.history) > 0 /\ Last(w.history).t = time
           \/ Len(w.history) = 0 /\ w.window_start_time = time

\* C13 as stated: every predict() call that returns is_valid = TRUE has
\* handed one (now, hit_chance) sample to the opportunity window of its
\* (target, spell slot), on all paths, including targeted spells and the
\* stasis and channel guaranteed-hit results.
C13_EveryValidResultSamplesWindow ==
    [][ (call'.op = "predict" /\ result'.is_valid) =>
            window_touched(trackers', call'.in, now) ]_vars

\* the window of the slot the last call was about
window_of(trs, in) == trs[in.target].opportunity_windows[window_slot(in.spell)]
has_window(trs, in) ==
    /\ in.target \in DOMAIN trs
    /\ window_slot(in.spell) \in DOMAIN trs[in.target].opportunity_windows

\* the last four samples decline strictly
declining(h) ==
    /\ Len(h) >= 4
    /\ h[Len(h)].hc < h[Len(h) - 1].hc
    /\ h[Len(h) - 1].hc < h[Len(h) - 2].hc
    /\ h[Len(h) - 2].hc < h[Len(h) - 3].hc

\* 1.5 s and 3 s, the ends of the clamp on the patience window, in tenths of
\* a tick
PatienceWindows == {15 * Sec(1), 30 * Sec(1)}

\* C14: is_peak_opportunity returns FALSE for every hit chance, threshold and
\* window content whenever elapsed_time < patience_window, and no result of
\* predict() has is_peak_opportunity = TRUE within 1.5 s of the creation or
\* last reset of its window.
C14_PatienceVeto ==
    [][ /\ \A id \in DOMAIN trackers' :
             \A slot \in DOMAIN trackers'[id].opportunity_windows :
               \A hc \in HitChances, threshold \in {0, 6500},
                  elapsed \in 0..MaxWindowTime, patience \in PatienceWindows :
                   elapsed * 10 < patience =>
                       ~is_peak_opportunity(trackers'[id].opportunity_windows[slot], now',
                                            hc, threshold, elapsed, patience)
        /\ (call'.op = "predict" /\ result'.is_peak_opportunity) =>
               /\ has_window(trackers, call'.in)
               /\ 10 * (now - window_of(trackers, call'.in).window_start_time) >= 15 * Sec(1)
      ]_vars

\* predict() was asked within the patience window about a slot whose last
\* four samples decline, and did not report a peak
W_C14 ==
    /\ call.op = "predict" /\ result.is_valid
    /\ has_window(trackers, call.in)
    /\ LET w == window_of(trackers, call.in)
       IN  /\ Len(w.history) >= 5 /\ declining(w.history)
           /\ 10 * (now - w.window_start_time) < 15 * Sec(1)
           /\ is_peak_opportunity_no_patience(w, now, result.hit_chance,
                                              result.adaptive_threshold, 0, 0)
    /\ ~result.is_peak_opportunity

\* C15: is_peak_opportunity returns TRUE only on a sustained decline:
\* whenever it returns TRUE, for whatever hit chance, threshold, elapsed time
\* and patience, the window holds at least 5 samples and its four most
\* recent samples are strictly decreasing; so does the window of every
\* predict() result that reports a peak.
C15_PeakOnlyOnSustainedDecline ==
    /\ \A id \in DOMAIN trackers :
         \A slot \in DOMAIN trackers[id].opportunity_windows :
           LET w == trackers[id].opportunity_windows[slot]
           IN  \A hc \in HitChances, threshold \in {0, 6500},
                  elapsed \in {0, HalfSecs(3), Sec(3)}, patience \in PatienceWindows :
                   is_peak_opportunity(w, now, hc, threshold, elapsed, patience) =>
                       Len(w.history) >= 5 /\ declining(w.history)
    /\ (call.op = "predict" /\ result.is_peak_opportunity) =>
           /\ has_window(trackers, call.in)
           /\ Len(window_of(trackers, call.in).history) >= 5
           /\ declining(window_of(trackers, call.in).history)

\* predict() reported a peak on a window of six samples whose last four
\* decline, once the patience time had passed
W_C15 ==
    /\ call.op = "predict" /\ result.is_valid
    /\ result.is_peak_opportunity
    /\ has_window(trackers, call.in)
    /\ Len(window_of(trackers, call.in).history) = 6
    /\ declining(window_of(trackers, call.in).history)
    /\ 10 * (now - window_of(trackers, call.in).window_start_time) >= 15 * Sec(1)

\* C16: after every OpportunityWindow::update(now, hit_chance) under a
\* non-decreasing clock the stored history holds at most MAX_HISTORY_SIZE
\* (200) samples, holds no sample older than 3 s relative to now, is ordered
\* by timestamp, and has (now, hit_chance) as its newest entry.
C16_WindowStaysBounded ==
    call.op = "window_update" =>
        LET h == trackers[call.in.target].opportunity_windows[0].history
        IN  /\ Len(h) <= MAX_HISTORY_SIZE
            /\ \A i \in 1..Len(h) : now - h[i].t <= WINDOW_DURATION
            /\ \A i \in 1..(Len(h) - 1) : h[i].t <= h[i + 1].t
            /\ Len(h) > 0
            /\ Last(h) = [t |-> now, hc |-> call.in.geo.fused]

\* update() was handed a sample on top of a full window and the window holds
\* MAX_HISTORY_SIZE samples again, the oldest one gone and the new one last
W_C16 ==
    /\ call.op = "window_update"
    /\ LET h == trackers[call.in.target].opportunity_windows[0].history
       IN  /\ Len(h) = MAX_HISTORY_SIZE
           /\ Last(h) = [t |-> now, hc |-> 63]
           /\ now > 0 /\ Head(h).t = 0

same_request(a, b) ==
    /\ a.target = b.target
    /\ a.prediction_time = b.prediction_time
    /\ a.move_speed = b.move_speed

\* C18 as stated: two predict() calls for the same target at the same game
\* time with identical prediction_time and move_speed, with no update() in
\* between, return BehaviorPDFs with identical origin, cell size and cell
\* contents.
C18_SameTickSamePdf ==
    \A i, j \in DOMAIN call.pdfs :
        same_request(call.pdfs[i], call.pdfs[j]) => call.pdfs[i].cells = call.pdfs[j].cells

\* C18 amended: two predict() calls for the same target at the same game
\* time with identical prediction_time and move_speed, with no update() and
\* no other predict() for that target in between, return BehaviorPDFs with
\* identical origin, cell size and cell contents.
C18_ConsecutiveCallsSamePdf ==
    \A i \in DOMAIN call.pdfs :
        (i > 1 /\ same_request(call.pdfs[i - 1], call.pdfs[i])) =>
            call.pdfs[i - 1].cells = call.pdfs[i].cells

\* the same request was made twice in a row after a request with a slightly
\* longer prediction time had filled the cache, and both got the PDF that was
\* built for the first request
W_C18 ==
    /\ call.op = "predict"
    /\ \E i \in DOMAIN call.pdfs :
          /\ i > 1 /\ same_request(call.pdfs[i - 1], call.pdfs[i])
          /\ call.pdfs[i - 1].cells = call.pdfs[i].cells
          /\ Len(call.pdfs[i].cells.points) > 0
          /\ call.pdfs[i].built_for # call.pdfs[i].prediction_time
          /\ call.pdfs[i - 1].built_for = call.pdfs[i].built_for

\* C19: the aim point chosen by the circular aim-point search lies inside
\* the reachable disk: the position find_optimal_cast_position returns is at
\* most max_radius away from the centre of the region, also when every
\* candidate scores zero.
aim_offset == Vec(result.cast_position.x - call.in.reachable_region.center.x,
                  result.cast_position.z - call.in.reachable_region.center.z)
C19_AimInsideReachableDisk ==
    call.op = "search" =>
        aim_offset.x * aim_offset.x + aim_offset.z * aim_offset.z
          <= call.in.reachable_region.max_radius * call.in.reachable_region.max_radius

\* C20 (as stated): compute_physics_hit_probability is non-increasing in the
\* reachable-region radius: for a fixed aim point and projectile radius, and
\* reachable disks with the same centre and radii R1 <= R2 (R1 = 0
\* included), the probability for R1 is at least the probability for R2.
non_increasing(i, j) == call.log[i].probability >= call.log[j].probability
C20_PhysicsNonIncreasingInRadius ==
    call.op = "physics" =>
        \A i, j \in DOMAIN call.log :
            call.log[i].max_radius <= call.log[j].max_radius => non_increasing(i, j)

\* C20 (amended): with the aim point at the centre of the reachable disks,
\* for a fixed projectile radius and radii R1 <= R2 of disks whose area the
\* function does not take for empty (area >= EPSILON), the probability for
\* R1 is at least the probability for R2.
aim_at_centre == call.in.cast_position = call.in.center
not_empty(i) == ~(call.log[i].area < 1)
C20_NonIncreasingAtCentre ==
    (call.op = "physics" /\ aim_at_centre) =>
        \A i, j \in DOMAIN call.log :
            (not_empty(i) /\ call.log[i].max_radius <= call.log[j].max_radius)
                => non_increasing(i, j)
\* the aim point at the centre, evaluated for a disk inside the projectile's
\* footprint and for a larger disk that contains the footprint, the larger
\* disk having the strictly lower probability
W_C20 ==
    /\ call.op = "physics"
    /\ aim_at_centre
    /\ \E i, j \in DOMAIN call.log :
          /\ not_empty(i)
          /\ call.log[i].max_radius < call.in.projectile_radius
          /\ call.in.projectile_radius < call.log[j].max_radius
          /\ call.log[i].probability = 1000
          /\ call.log[j].probability < 1000
          /\ call.log[j].probability > 0

\* C21: get_stationary_hitchance_boost returns 0 when the target is not
\* stationary or has been stationary for less than 0.5 s, rises linearly with
\* the stationary duration to 75% at 1.0 s, returns 75% for every duration of
\* 1.0 s or more, and is non-decreasing in the stationary duration.
boost_log == call.log
on_ramp(e) == e.stationary /\ e.duration >= 50 /\ e.duration <= 100
C21_StationaryBoostShape ==
    call.op = "boost" =>
        /\ \A i \in DOMAIN boost_log :
              /\ (~boost_log[i].stationary \/ boost_log[i].duration < 50) => boost_log[i].boost = 0
              /\ (boost_log[i].stationary /\ boost_log[i].duration >= 100) => boost_log[i].boost = 75
              \* on the ramp the boost lies on the line that ends in 75% at 1.0 s
              /\ \A j \in DOMAIN boost_log :
                    (on_ramp(boost_log[i]) /\ on_ramp(boost_log[j])
                       /\ boost_log[i].duration < boost_log[j].duration) =>
                        /\ boost_log[i].boost < boost_log[j].boost
                        /\ (75 - boost_log[i].boost) * (100 - boost_log[j].duration)
                             = (75 - boost_log[j].boost) * (100 - boost_log[i].duration)
        /\ \A i, j \in DOMAIN boost_log :
              (boost_log[i].stationary /\ boost_log[j].stationary
                 /\ boost_log[i].duration <= boost_log[j].duration)
                  => boost_log[i].boost <= boost_log[j].boost
\* two answers on the ramp, strictly between 0.5 s and 1.0 s
W_C21 ==
    /\ call.op = "boost"
    /\ \E i, j \in DOMAIN boost_log :
          /\ boost_log[i].stationary
          /\ 50 < boost_log[i].duration
          /\ boost_log[i].duration < boost_log[j].duration
          /\ boost_log[j].duration < 100
          /\ boost_log[i].boost < boost_log[j].boost
          /\ boost_log[j].boost < 75

\* the target of the walk
walker == CHOOSE id \in Ids : TRUE
unsampled_for(id) == now - Last(trackers[id].movement_history).timestamp
reports_no_pattern(dp) ==
    /\ ~dp.has_pattern
    /\ dp.pattern_confidence = 0
    /\ dp.predicted_next_direction = ZeroVec

\* C22 as stated: a detected dodge pattern expires after motion inactivity:
\* once more than 3 s have passed without a new motion sample for a target,
\* its DodgePattern reports no pattern (has_pattern FALSE, confidence 0, no
\* predicted direction), and a behaviour PDF built then carries no pattern
\* sample.
C22_PatternExpiresWhenIdle ==
    \A id \in DOMAIN trackers :
        (Len(trackers[id].movement_history) > 0 /\ unsampled_for(id) > PATTERN_EXPIRY_DURATION)
        => /\ reports_no_pattern(trackers[id].dodge_pattern)
           /\ call.op = "pdf" => ~call.pdf.pattern.has_pattern

\* the update() call just made ran the pattern analysis
analysed(id) ==
    /\ call.op = "update"
    /\ Len(trackers[id].movement_history) >= MIN_SAMPLES_FOR_BEHAVIOR
    /\ Len(trackers[id].movement_history) % ANALYZE_EVERY = 0
\* L-R-L-R or R-L-R-L: no straight entry, every entry opposite to the one before
strictly_alternating(seq) ==
    /\ \A i \in 1..Len(seq) : seq[i] # 0
    /\ \A i \in 2..Len(seq) : seq[i] = 0 - seq[i - 1]

\* C23 as stated: alternating jukes are detected: whenever the sign sequence
\* built by the recomputation has at least 4 entries and strictly alternates
\* between left and right, the recomputation leaves has_pattern TRUE with a
\* confidence above 0.6 and predicts the side opposite to the last juke.
C23_AlternatingJukesDetected ==
    \A id \in DOMAIN trackers :
        LET dp == trackers[id].dodge_pattern
            seq == dp.juke_sequence
        IN  (analysed(id) /\ Len(seq) >= 4 /\ strictly_alternating(seq))
            => /\ dp.has_pattern
               /\ dp.pattern_confidence > 60
               /\ dp.predicted_next_direction =
                      scale(perpendicular(Last(trackers[id].movement_history).velocity),
                            0 - Last(seq))

\* what the two detection branches accept: entries two apart opposite at
\* least twice and never equal, or six and more entries with equal halves
found_alternating(seq) ==
    /\ Len(seq) >= 4
    /\ \A i \in alternation_pairs(seq) : seq[i - 2] = 0 - seq[i]
    /\ Cardinality(alternation_pairs(seq)) >= 2
found_repeating(seq) ==
    /\ Len(seq) >= 6
    /\ \A i \in 1..(Len(seq) \div 2) : seq[i] = seq[i + Len(seq) \div 2]

\* C28 as stated: has_pattern reflects the latest recomputation: after every
\* recomputation has_pattern is TRUE only if the sign sequence examined in
\* that recomputation is alternating or repeating, and when it is neither the
\* pattern of an earlier recomputation is gone (has_pattern FALSE, confidence
\* 0, no predicted direction).
C28_PatternOfLatestRecomputation ==
    \A id \in DOMAIN trackers :
        LET dp == trackers[id].dodge_pattern
            seq == dp.juke_sequence
        IN  (analysed(id) /\ ~found_alternating(seq) /\ ~found_repeating(seq))
            => reports_no_pattern(dp)

\* a PDF made of one weighted sample at the latest sampled position: no
\* extrapolated history samples, no lateral hypotheses, no pattern sample
single_sample_at_latest(pdf, t) ==
    /\ pdf.locked
    /\ pdf.samples = <<Last(t.movement_history)>>
    /\ ~pdf.pattern.has_pattern

\* C24 as stated: animation-locked targets bypass the behaviour model:
\* whenever is_animation_locked() holds of the tracker (its latest sample
\* shows auto-attacking, casting or hard crowd control), the PDF that
\* build_behavior_pdf returns is a single weighted sample at the latest
\* sampled position.
C24_LockedTargetSingleSample ==
    (call.op = "predict" /\ is_animation_locked(trackers[call.in.target]))
    => single_sample_at_latest(result.behavior_pdf, trackers[call.in.target])

\* the speed derived for sample i of the history is below the threshold
below_threshold(h, i) == magnitude(h[i].velocity) < STATIONARY_VELOCITY_THRESHOLD
\* first sample of the unbroken run of below-threshold samples that ends
\* with the latest one; the first sample of a history has no derived speed
run_start(h) ==
    CHOOSE k \in 2..Len(h) :
        /\ \A i \in k..Len(h) : below_threshold(h, i)
        /\ k > 2 => ~below_threshold(h, k - 1)

\* C25: the stationary timer: after two or more accepted samples
\* is_currently_stationary is TRUE exactly when the speed derived for the
\* latest sample is below STATIONARY_VELOCITY_THRESHOLD; stationary_start_time
\* is then the timestamp of the first sample of the current unbroken run of
\* below-threshold samples, and it is 0 when the latest sample is at or above
\* the threshold.
C25_StationaryTimer ==
    \A id \in DOMAIN trackers :
        LET t == trackers[id]
            h == t.movement_history
        IN  Len(h) >= 2 =>
              /\ t.is_currently_stationary = below_threshold(h, Len(h))
              /\ t.stationary_start_time =
                    IF below_threshold(h, Len(h)) THEN h[run_start(h)].timestamp ELSE 0

\* a run of three slow samples after a fast one: the timer still shows the
\* first of the three
W_C25 ==
    \E id \in DOMAIN trackers :
        LET t == trackers[id]
            h == t.movement_history
        IN  /\ call.op = "update"
            /\ Len(h) >= 5
            /\ ~below_threshold(h, Len(h) - 3)
            /\ \A i \in (Len(h) - 2)..Len(h) : below_threshold(h, i)
            /\ t.is_currently_stationary
            /\ t.stationary_start_time = h[Len(h) - 2].timestamp
            /\ t.stationary_start_time < h[Len(h)].timestamp

\* the state the claim calls an obvious hit
obvious_hit_state(in, t) ==
    \/ is_animation_locked(t)
    \/ in.edge.channel.is_channeling \/ in.edge.channel.is_recalling
    \/ is_straight_line(t.movement_history)

C27_CachedPdfOfCurrentHistory ==
    (call.op = "predict" /\ Len(result.behavior_pdf.samples) > 0 /\ ~result.behavior_pdf.locked)
    => result.behavior_pdf.samples =
           LastN(trackers[call.in.target].movement_history, PDF_SAMPLE_LIMIT)

\* the step handed a sample to the window of the call's (target, slot)
window_sampled ==
    /\ has_window(trackers', call'.in)
    /\ ~has_window(trackers, call'.in)
         \/ window_of(trackers', call'.in) # window_of(trackers, call'.in)

\* C29 as stated: the opportunity window records what the caller sees: for
\* every valid result of predict(), the hit chance handed to the (target,
\* slot) window during that evaluation (and kept as last_hit_chance) equals
\* the hit_chance field of the returned result, after the edge-case
\* multiplier, the stationary floor and the clamp.
C29_WindowRecordsReturnedHitChance ==
    [][ (call'.op = "predict" /\ result'.is_valid /\ window_sampled) =>
            window_of(trackers', call'.in).last_hit_chance = result'.hit_chance ]_vars

\* C30: opportunity_score never exceeds 1: after any sequence of evaluations
\* with hit chances in [0, 1] under a non-decreasing clock (peak
\* recomputation after 2 s of staleness, 3 s pruning, the 200-sample cap and
\* collapse resets included), the peak of the window right after update() is
\* at least the hit chance just recorded, and the reported opportunity_score,
\* hit_chance / peak, or 1 for a peak of 0, lies in [0, 1].
C30_OpportunityScoreAtMostOne ==
    call.op = "signals" =>
        /\ call.peak >= call.hit_chance
        /\ result.opportunity_score >= 0
        /\ result.opportunity_score <= 100
        /\ result.opportunity_score =
              IF call.peak > 0 THEN (call.hit_chance * 100) \div call.peak ELSE 100

\* an evaluation found the old peak stale and its sample pruned, recomputed a
\* lower peak from what was left, and scored a hit chance below the peak
\* before against it
W_C30 ==
    /\ call.op = "signals"
    /\ call.peak < call.peak_before
    /\ call.hit_chance > 0
    /\ call.hit_chance < call.peak_before
    /\ call.peak = call.hit_chance
    /\ result.opportunity_score = 100

====
